---- MODULE Spec2Model ----
(***************************************************************************)
(* Verification model of ghtraf (github-traffic-tracker).                  *)
(*                                                                         *)
(* Text is modelled as a sequence of tokens (a token is a character or an  *)
(* indivisible run of characters), so the empty string is <<>> and string  *)
(* concatenation is \o.  Python's None is the reserved value Null.         *)
(*                                                                         *)
(* The module holds several specifications over one set of variables:      *)
(*   SpecResolve    resolve_config over bounded CLI args and config files  *)
(*   SpecRegister   register_repo_globally / save_global_config            *)
(*   SpecCreate     the create command (settings persistence)              *)
(*   SpecInit       the init command (template deployer)                   *)
(*   SpecConfigure  the template configurator                              *)
(*   SpecOutput     the OutputManager of lib/log_lib: emit, error, hint    *)
(*   SpecCli        main of cli.py: the two parsing passes and dispatch    *)
(*   SpecLoad       load_json and resolve_config on unreadable files       *)
(*   SpecWalk       find_project_config and _discover_repo_dir; with weak  *)
(*                  fairness of its steps it is SpecWalkFair               *)
(* Each specification leaves the variables of the others untouched.        *)
(***************************************************************************)
EXTENDS Integers, Sequences, FiniteSets, TLC

VARIABLES
    projectFile,   \* the nearest .ghtraf.json as stored on disk
    globalFile,    \* ~/.ghtraf/config.json as stored on disk
    resolveCall,   \* the last resolve_config call: its args, keys and result
    regCall,       \* the last register_repo_globally call: its arguments
    regCount,      \* number of register_repo_globally calls made so far
    initPc,        \* init: "off", "loop" (copy loop) or "done" (after summary)
    initIn,        \* init: flags, packaged sources and the target directory
    initIdx,       \* init: index into TEMPLATE_FILES of the next template
    initRun,       \* init: the run's locals and its view of the file system
    initTwin,      \* init: the same invocation with the dry-run flag flipped
    tplDisk,       \* configure: the three target files as stored on disk
    tplPasses,     \* configure: the configurator calls made so far, in order
    createPc,      \* create: "idle", the step about to run, or "ended"
    createCall,    \* create: the invocation's args and the files it started on
    createCfg,     \* create: the config dict of run()
    createLog,     \* create: what the invocation asked, printed and requested
    createExit,    \* create: the exit code of the invocation that ended
    createRuns,    \* create: number of invocations started so far
    ghGists,       \* GitHub: the gists created, in order
    ghVars,        \* GitHub: the repository variables and secrets that are set
    outMgr,        \* output: the OutputManager (verbosity, overrides, shown)
    outFile,       \* output: how often each text was written to the file
    outCall,       \* output: the last emit, error or hint call and its effect
    outCalls,      \* output: number of calls made so far
    cliPc,         \* main: "off", "pass1", "pass2", "dispatch" or "done"
    cliArgv,       \* main: the argument list
    cliGlobal,     \* main: the namespace of pass 1
    cliRemaining,  \* main: the arguments pass 1 left
    cliMoved,      \* main: pass 1 on the list with one global flag moved back
    cliArgs,       \* main: the namespace handed to the subcommand
    cliResult,     \* main: what main returned, or the exception that left it
    walkPc,        \* walk: "off", "config" (find_project_config), "git", "done"
    walkIn,        \* walk: the directories above the start and the arguments
    walkCur,       \* walk: the directory being examined (1 is the start)
    walkSeen,      \* walk: the directories find_project_config examined
    walkResult     \* walk: what find_project_config / _discover_repo_dir gave

cfgVars == <<projectFile, globalFile, resolveCall, regCall, regCount>>

initVars == <<initPc, initIn, initIdx, initRun, initTwin>>

tplVars == <<tplDisk, tplPasses>>

createVars == <<createPc, createCall, createCfg, createLog, createExit,
                createRuns, ghGists, ghVars>>

outVars == <<outMgr, outFile, outCall, outCalls>>

walkVars == <<walkPc, walkIn, walkCur, walkSeen, walkResult>>

nonCfgVars == <<initVars, tplVars, createVars, outVars, cliPc, cliArgv,
                cliGlobal, cliRemaining, cliMoved, cliArgs, cliResult,
      walkVars>>

nonInitVars == <<cfgVars, tplVars, createVars, outVars, cliPc, cliArgv,
                 cliGlobal, cliRemaining, cliMoved, cliArgs, cliResult,
      walkVars>>

nonTplVars == <<cfgVars, initVars, createVars, outVars, cliPc, cliArgv,
                cliGlobal, cliRemaining, cliMoved, cliArgs, cliResult,
      walkVars>>

\* What no step of create touches.
nonCreateVars ==
    <<resolveCall, regCall, regCount, initVars, tplPasses, outVars, cliPc,
      cliArgv, cliGlobal, cliRemaining, cliMoved, cliArgs, cliResult,
      walkVars>>

cliVars == <<cliPc, cliArgv, cliGlobal, cliRemaining, cliMoved, cliArgs,
             cliResult>>

nonOutVars == <<cfgVars, initVars, tplVars, createVars, cliVars, walkVars>>

nonCliVars == <<cfgVars, initVars, tplVars, createVars, outVars, walkVars>>

nonWalkVars == <<cfgVars, initVars, tplVars, createVars, outVars, cliVars>>

vars == <<projectFile, globalFile, resolveCall, regCall, regCount,
          initPc, initIn, initIdx, initRun, initTwin, tplDisk, tplPasses,
          createPc, createCall, createCfg, createLog, createExit,
          createRuns, ghGists, ghVars, outMgr, outFile, outCall, outCalls,
          cliPc, cliArgv, cliGlobal, cliRemaining, cliMoved, cliArgs,
          cliResult, walkPc, walkIn, walkCur, walkSeen, walkResult>>

----------------------------------------------------------------------------
(* Python values *)

\* The idle valuation of the variables a specification does not use.
CfgIdle ==
    /\ projectFile = [kind |-> "missing"]
    /\ globalFile = [kind |-> "missing"]
    /\ resolveCall = [kind |-> "none"]
    /\ regCall = [kind |-> "none"]
    /\ regCount = 0

InitIdle ==
    /\ initPc = "off"
    /\ initIn = [kind |-> "none"]
    /\ initIdx = 0
    /\ initRun = [kind |-> "none"]
    /\ initTwin = [kind |-> "none"]

TplIdle ==
    /\ tplDisk = [kind |-> "none"]
    /\ tplPasses = <<>>

CreateIdle ==
    /\ createPc = "idle"
    /\ createCall = [kind |-> "none"]
    /\ createCfg = [kind |-> "none"]
    /\ createLog = <<>>
    /\ createExit = [kind |-> "none"]
    /\ createRuns = 0
    /\ ghGists = <<>>
    /\ ghVars = <<>>

OutIdle ==
    /\ outMgr = [kind |-> "none"]
    /\ outFile = <<>>
    /\ outCall = [kind |-> "none"]
    /\ outCalls = 0

CliIdle ==
    /\ cliPc = "off"
    /\ cliArgv = <<>>
    /\ cliGlobal = [kind |-> "none"]
    /\ cliRemaining = <<>>
    /\ cliMoved = [kind |-> "none"]
    /\ cliArgs = [kind |-> "none"]
    /\ cliResult = [kind |-> "none"]

WalkIdle ==
    /\ walkPc = "off"
    /\ walkIn = [kind |-> "none"]
    /\ walkCur = 0
    /\ walkSeen = {}
    /\ walkResult = [kind |-> "none"]

Null == <<"None">>

NoCall == [kind |-> "none"]

\* Python truthiness of a string-or-None value: None and "" are falsy.
Truthy(v) == v /= Null /\ v /= <<>>

\* Python `a or b`.
PyOr(a, b) == IF Truthy(a) THEN a ELSE b

\* dict.get(k) with the default None; a dict is a function on its keys.
DictGet(d, k) == IF k \in DOMAIN d THEN d[k] ELSE Null

EmptyDict == [k \in {} |-> Null]

\* str.replace(x, y) for a one-character x.
Replace(s, x, y) == [i \in 1..Len(s) |-> IF s[i] = x THEN y ELSE s[i]]

Contains(s, x) == \E i \in 1..Len(s) : s[i] = x

----------------------------------------------------------------------------
(* Config files *)

MissingFile == [kind |-> "missing"]

MalformedFile == [kind |-> "malformed"]

JsonFile(d) == [kind |-> "json", data |-> d]

load_json(file) == IF file.kind = "json" THEN file.data ELSE EmptyDict

load_project_config == load_json(projectFile)

load_global_config == load_json(globalFile)

----------------------------------------------------------------------------
(* Key names *)

KOwner == <<"owner">>

KRepo == <<"repo">>

KRepoDir == <<"repo", "_", "dir">>

KRepoDirH == <<"repo", "-", "dir">>

KBadge == <<"badge", "_", "gist", "_", "id">>

KBadgeH == <<"badge", "-", "gist", "-", "id">>

KArchive == <<"archive", "_", "gist", "_", "id">>

KDisplay == <<"display", "_", "name">>

KCreated == <<"created">>

arg_key(key) == Replace(key, "-", "_")

json_key(key) == IF Contains(key, "_") THEN Replace(key, "_", "-") ELSE key

alt_json_key(key) == IF Contains(key, "-") THEN Replace(key, "-", "_") ELSE key

\* f"{owner}/{repo}"
RepoKeyOf(owner, repo) == owner \o <<"/">> \o repo

\* getattr(args, name, None)
GetAttr(args, name) == DictGet(args, name)

----------------------------------------------------------------------------
(* resolve_config *)

\* global_cfg.get("repos", {}).get(repo_key, {}) for the CLI owner/repo pair
global_repo_cfg(args, global_cfg) ==
    LET cli_owner == GetAttr(args, KOwner)
        cli_repo == GetAttr(args, KRepo)
        repos == IF "repos" \in DOMAIN global_cfg THEN global_cfg["repos"]
                                                  ELSE EmptyDict
    IN  IF Truthy(cli_owner) /\ Truthy(cli_repo)
        THEN IF RepoKeyOf(cli_owner, cli_repo) \in DOMAIN repos
             THEN repos[RepoKeyOf(cli_owner, cli_repo)]
             ELSE EmptyDict
        ELSE EmptyDict

\* One iteration of the `for key in keys` loop: the value stored under
\* resolved[arg_key].
ResolveKey(args, project_cfg, repo_cfg, key) ==
    LET cli_val == GetAttr(args, arg_key(key))
        proj_val == PyOr(DictGet(project_cfg, json_key(key)),
                         DictGet(project_cfg, alt_json_key(key)))
        global_val == PyOr(DictGet(repo_cfg, json_key(key)),
                           DictGet(repo_cfg, alt_json_key(key)))
    IN  IF cli_val /= Null THEN cli_val
        ELSE IF proj_val /= Null THEN proj_val
        ELSE IF global_val /= Null THEN global_val
        ELSE Null

\* The resolved dict: a later key with the same arg_key overwrites an
\* earlier one.
resolve_config(args, keys, pfile, gfile) ==
    LET project_cfg == load_json(pfile)
        repo_cfg == global_repo_cfg(args, load_json(gfile))
        Last(ak) == CHOOSE i \in 1..Len(keys) :
                        /\ arg_key(keys[i]) = ak
                        /\ \A j \in (i+1)..Len(keys) : arg_key(keys[j]) /= ak
    IN  [ak \in {arg_key(keys[i]) : i \in 1..Len(keys)} |->
            ResolveKey(args, project_cfg, repo_cfg, keys[Last(ak)])]

----------------------------------------------------------------------------
(* SpecResolve: bounded inputs of resolve_config *)

CliOwners == {Null, <<>>, <<"o">>}

CliRepos == {Null, <<"r">>}

CliRepoDirs == {Null, <<"c">>}

ArgsSet ==
    {(KOwner :> o) @@ (KRepo :> r) @@ (KRepoDir :> d) :
        o \in CliOwners, r \in CliRepos, d \in CliRepoDirs}

\* keys=None selects the default list.
DefaultKeys == <<KOwner, KRepo, KRepoDir>>

KeyLists == {DefaultKeys, <<KRepoDirH>>, <<KBadge, KRepoDir>>}

ProjDicts ==
    {(KOwner :> o) @@ (KRepo :> r) @@ (KRepoDir :> d) @@ (KRepoDirH :> h)
        @@ (KBadge :> b) :
        o \in {Null, <<"o">>}, r \in {Null, <<"r">>},
        d \in {Null, <<"p">>}, h \in {Null, <<>>, <<"q">>},
        b \in {Null, <<"b">>}}

ProjFiles == {MissingFile, MalformedFile} \cup {JsonFile(d) : d \in ProjDicts}

GlobalEntries ==
    {(KRepoDir :> d) @@ (KRepoDirH :> h) @@ (KBadge :> b) :
        d \in {Null, <<"g">>}, h \in {Null, <<>>, <<"h">>},
        b \in {Null, <<"B">>}}

GlobalDict(e) ==
    ("version" :> 1) @@ ("repos" :> (RepoKeyOf(<<"o">>, <<"r">>) :> e))

GlobalFiles ==
    {MissingFile, MalformedFile} \cup {JsonFile(GlobalDict(e)) : e \in GlobalEntries}

InitResolve ==
    /\ projectFile \in ProjFiles
    /\ globalFile \in GlobalFiles
    /\ resolveCall = NoCall
    /\ regCall = NoCall
    /\ regCount = 0
    /\ InitIdle
    /\ TplIdle
    /\ CreateIdle
    /\ OutIdle
    /\ CliIdle
    /\ WalkIdle

ResolveConfig ==
    \E args \in ArgsSet, keys \in KeyLists :
        /\ resolveCall' = [kind |-> "resolve", args |-> args, keys |-> keys,
                           resolved |-> resolve_config(args, keys,
                                                       projectFile, globalFile)]
        /\ UNCHANGED <<projectFile, globalFile, regCall, regCount>>
        /\ UNCHANGED nonCfgVars

NextResolve == ResolveConfig

SpecResolve == InitResolve /\ [][NextResolve]_vars

----------------------------------------------------------------------------
(* Claims on resolve_config *)

\* The non-null values a dict stores for a key under either spelling.
StoredValues(d, key) ==
    {DictGet(d, json_key(key)), DictGet(d, alt_json_key(key))} \ {Null}

\* The entry of the global file for an owner/repo pair.
GlobalEntryFor(owner, repo) ==
    LET cfg == load_json(globalFile)
        repos == IF "repos" \in DOMAIN cfg THEN cfg["repos"] ELSE EmptyDict
    IN  IF owner /= Null /\ repo /= Null
           /\ RepoKeyOf(owner, repo) \in DOMAIN repos
        THEN repos[RepoKeyOf(owner, repo)]
        ELSE EmptyDict

\* The current owner (or repo): the CLI value, else the project file's.
CurrentValue(args, key) ==
    IF GetAttr(args, key) /= Null THEN GetAttr(args, key)
    ELSE DictGet(load_json(projectFile), key)

\* C1: a non-null CLI value is returned whatever the files hold; with a null
\* CLI value and the key present in both the project file and the global
\* entry, the project file's value is returned.
C1_CliThenProject ==
    resolveCall.kind = "resolve" =>
        \A i \in 1..Len(resolveCall.keys) :
            LET key == resolveCall.keys[i]
                args == resolveCall.args
                cli == GetAttr(args, arg_key(key))
                got == resolveCall.resolved[arg_key(key)]
                inProject == StoredValues(load_json(projectFile), key)
                inGlobal == StoredValues(
                    GlobalEntryFor(GetAttr(args, KOwner), GetAttr(args, KRepo)),
                    key)
            IN  /\ cli /= Null => got = cli
                /\ (cli = Null /\ inProject /= {} /\ inGlobal /= {})
                       => got \in inProject

\* C10: with no CLI value and no project value, the result is the value the
\* global entry of the current owner/repo pair stores for the key, and null
\* only when that entry lacks the key; the pair may come from the CLI flags
\* or from the project file.
C10_GlobalFallback ==
    resolveCall.kind = "resolve" =>
        \A i \in 1..Len(resolveCall.keys) :
            LET key == resolveCall.keys[i]
                args == resolveCall.args
                cli == GetAttr(args, arg_key(key))
                got == resolveCall.resolved[arg_key(key)]
                inProject == StoredValues(load_json(projectFile), key)
                inGlobal == StoredValues(
                    GlobalEntryFor(CurrentValue(args, KOwner),
                                   CurrentValue(args, KRepo)), key)
            IN  (cli = Null /\ inProject = {}) =>
                    IF inGlobal = {} THEN got = Null ELSE got \in inGlobal

----------------------------------------------------------------------------
(* register_repo_globally *)

DictSet(d, k, v) == [x \in DOMAIN d \cup {k} |-> IF x = k THEN v ELSE d[x]]

\* dict.setdefault(k, v)
SetDefault(d, k, v) == IF k \in DOMAIN d THEN d ELSE DictSet(d, k, v)

\* A fault: the field is assigned whether or not a value was passed.
SetAlways(entry, field, value) == DictSet(entry, field, value)

\* `if value: entry[field] = value`
SetIfGiven(entry, field, value) ==
    IF Truthy(value) THEN DictSet(entry, field, value) ELSE entry

\* The config dict that register_repo_globally saves and returns.
register_repo_globally(gfile, owner, repo, badge_gist_id, archive_gist_id, repo_dir, display_name, created) ==
    LET config == SetDefault(SetDefault(load_json(gfile), "version", 1),
                             "repos", EmptyDict)
        repo_key == RepoKeyOf(owner, repo)
        entry0 == IF repo_key \in DOMAIN config["repos"]
                  THEN config["repos"][repo_key] ELSE EmptyDict
        entry1 == SetIfGiven(entry0, KBadge, badge_gist_id)
        entry2 == SetIfGiven(entry1, KArchive, archive_gist_id)
        entry3 == SetIfGiven(entry2, KRepoDir, repo_dir)
        entry4 == SetIfGiven(entry3, KDisplay, display_name)
        entry5 == SetIfGiven(entry4, KCreated, created)
    IN  DictSet(config, "repos", DictSet(config["repos"], repo_key, entry5))

\* json.dump of the full mapping over the previous file content
save_global_config(data) == JsonFile(data)

----------------------------------------------------------------------------
(* SpecRegister: sequences of register_repo_globally calls *)

MaxRegCalls == 3

RegOwners == {<<"a">>}

RegRepos == {<<"c">>, <<"d">>}

EntryFields == {KBadge, KArchive, KRepoDir, KDisplay, KCreated}

\* Argument combinations: nothing given, one field given (the badge id also
\* as the empty string and as a second id), badge and archive ids together,
\* and all five (the call made by create).
RegFieldArgs ==
    {[badge_gist_id |-> b, archive_gist_id |-> a, repo_dir |-> d,
      display_name |-> n, created |-> c] :
        b \in {Null, <<>>, <<"g1">>, <<"g2">>}, a \in {Null, <<"x">>},
        d \in {Null, <<"p">>}, n \in {Null, <<"n">>},
        c \in {Null, <<"t">>}}

Given(fa) ==
    {f \in {"badge_gist_id", "archive_gist_id", "repo_dir", "display_name",
            "created"} : fa[f] /= Null}

RegCalls ==
    {[kind |-> "register", owner |-> o, repo |-> r,
      badge_gist_id |-> fa.badge_gist_id,
      archive_gist_id |-> fa.archive_gist_id, repo_dir |-> fa.repo_dir,
      display_name |-> fa.display_name, created |-> fa.created] :
        o \in RegOwners, r \in RegRepos,
        fa \in {x \in RegFieldArgs :
                    \/ Cardinality(Given(x)) <= 1
                    \/ Given(x) = {"badge_gist_id", "archive_gist_id"}
                    \/ Cardinality(Given(x)) = 5}}

\* A global file written by an earlier version: another repo, version 2.
OtherRepoKey == RepoKeyOf(<<"z">>, <<"z">>)

OldGlobalFile ==
    JsonFile(("version" :> 2)
             @@ ("repos" :> (OtherRepoKey :> (KBadge :> <<"zz">>))))

InitRegister ==
    /\ projectFile = MissingFile
    /\ globalFile \in {MissingFile, MalformedFile, OldGlobalFile}
    /\ resolveCall = NoCall
    /\ regCall = NoCall
    /\ regCount = 0
    /\ InitIdle
    /\ TplIdle
    /\ CreateIdle
    /\ OutIdle
    /\ CliIdle
    /\ WalkIdle

RegisterRepo ==
    \E call \in RegCalls :
        /\ regCount < MaxRegCalls
        /\ regCount' = regCount + 1
        /\ regCall' = call
        /\ globalFile' = save_global_config(
               register_repo_globally(globalFile, call.owner, call.repo,
                   call.badge_gist_id, call.archive_gist_id, call.repo_dir,
                   call.display_name, call.created))
        /\ UNCHANGED <<projectFile, resolveCall>>
        /\ UNCHANGED nonCfgVars

NextRegister == RegisterRepo

SpecRegister == InitRegister /\ [][NextRegister]_vars

\* The repos mapping a reader of the global file sees.
ReposOf(gfile) ==
    LET cfg == load_json(gfile)
    IN  IF "repos" \in DOMAIN cfg THEN cfg["repos"] ELSE EmptyDict

\* The value of a field of an entry (Null when entry or field is absent).
EntryField(gfile, repo_key, field) ==
    IF repo_key \in DOMAIN ReposOf(gfile)
    THEN DictGet(ReposOf(gfile)[repo_key], field)
    ELSE Null

CallField(call, field) ==
    IF field = KBadge THEN call.badge_gist_id
    ELSE IF field = KArchive THEN call.archive_gist_id
    ELSE IF field = KRepoDir THEN call.repo_dir
    ELSE IF field = KDisplay THEN call.display_name
    ELSE call.created

AllRepoKeys ==
    {RepoKeyOf(o, r) : o \in RegOwners, r \in RegRepos} \cup {OtherRepoKey}

\* C8: a register_repo_globally call changes a field of an entry only if it
\* is a call for that owner/repo and passes a non-null value for that field;
\* every other field of every entry keeps its value, and no entry of another
\* owner/repo key appears or disappears.
C8_RegisterAdditive ==
    [][regCall'.kind = "register" =>
        /\ \A k \in AllRepoKeys, f \in EntryFields :
              (k /= RepoKeyOf(regCall'.owner, regCall'.repo)
                  \/ CallField(regCall', f) = Null)
              => EntryField(globalFile', k, f) = EntryField(globalFile, k, f)
        /\ \A k \in AllRepoKeys :
              k /= RepoKeyOf(regCall'.owner, regCall'.repo)
              => (k \in DOMAIN ReposOf(globalFile')
                     <=> k \in DOMAIN ReposOf(globalFile))]_vars

\* C8 witness: the last call passed only the archive id (badge id omitted)
\* for an entry whose badge id came from an earlier call, and both remain.
C8_Witness ==
    /\ regCall.kind = "register"
    /\ regCall.badge_gist_id = Null
    /\ regCall.archive_gist_id = <<"x">>
    /\ EntryField(globalFile, RepoKeyOf(regCall.owner, regCall.repo), KBadge)
           = <<"g1">>
    /\ EntryField(globalFile, RepoKeyOf(regCall.owner, regCall.repo), KArchive)
           = <<"x">>
    /\ OtherRepoKey \in DOMAIN ReposOf(globalFile)

----------------------------------------------------------------------------
(* init: the template deployer *)

\* TEMPLATE_FILES, in list order.
TEMPLATE_FILES ==
    <<".github/workflows/traffic-badges.yml", "docs/stats/index.html",
      "docs/stats/README.md", "docs/stats/favicon.svg">>

Templates == {TEMPLATE_FILES[i] : i \in 1..Len(TEMPLATE_FILES)}

\* dest_file.parent
ParentDir(t) ==
    IF t = ".github/workflows/traffic-badges.yml" THEN ".github/workflows"
    ELSE "docs/stats"

\* response.strip().lower() on the raw lines a user may type
StripLower(raw) ==
    IF raw = " Y " THEN "y"
    ELSE IF raw = "ALL" THEN "all"
    ELSE raw

\* A fault: non-interactive mode answers 'y'.
prompt_overwrite_yes(non_interactive, responses) ==
    [choice |-> "y", reads |-> 0, asked |-> FALSE]

\* _prompt_overwrite: the choice, the number of input() calls and whether
\* the question was put to the user.  `responses` are the lines the user
\* types, the last of which is a valid answer.
prompt_overwrite(non_interactive, responses) ==
    IF non_interactive
    THEN [choice |-> "n", reads |-> 0, asked |-> FALSE]
    ELSE LET Valid(i) == StripLower(responses[i]) \in {"", "n", "y", "a", "all"}
             k == CHOOSE i \in 1..Len(responses) :
                      Valid(i) /\ \A j \in 1..(i-1) : ~Valid(j)
             r == StripLower(responses[k])
         IN  [choice |-> IF r \in {"", "n"} THEN "n"
                         ELSE IF r = "y" THEN "y" ELSE "a",
              reads |-> k, asked |-> TRUE]

\* A fault: a dry run does not count the file it would copy.
CopyUncounted(st, dry_run, t) ==
    IF dry_run THEN st
    ELSE [st EXCEPT !.dest[t] = "packaged",
                    !.dirs = @ \cup {ParentDir(t)},
                    !.wrote = @ \cup {t},
                    !.copied = @ + 1]

\* "Copy the file": mkdir(parents=True), copy2, copied += 1
Copy(st, dry_run, t) ==
    IF dry_run
    THEN [st EXCEPT !.copied = @ + 1]
    ELSE [st EXCEPT !.dest[t] = "packaged",
                    !.dirs = @ \cup {ParentDir(t)},
                    !.wrote = @ \cup {t},
                    !.copied = @ + 1]

\* A fault: an existing destination never needs a decision.
NeedsDecisionNever(st, t) == FALSE

\* `dest_file.exists() and not overwrite_all`
NeedsDecision(st, t) == st.dest[t] /= "absent" /\ ~st.overwrite_all

\* Does the iteration for template t put the overwrite question?
WouldAsk(st, in, dry_run, t) ==
    /\ t \in in.srcPresent
    /\ NeedsDecision(st, t)
    /\ ~in.skip_existing
    /\ ~dry_run
    /\ ~in.non_interactive

\* A fault: a missing source is counted as a skipped file.
ProcessTemplateCountsMissing(st, in, dry_run, t, responses) ==
    IF t \notin in.srcPresent
    THEN [st EXCEPT !.warned = @ \cup {t}, !.skipped = @ + 1]
    ELSE IF NeedsDecision(st, t)
    THEN IF in.skip_existing
         THEN [st EXCEPT !.skipped = @ + 1]
         ELSE IF dry_run
         THEN [st EXCEPT !.skipped = @ + 1]
         ELSE LET pr == prompt_overwrite(in.non_interactive, responses)
                  asked == [st EXCEPT !.reads = @ + pr.reads,
                                      !.prompted[t] = @ + (IF pr.asked THEN 1 ELSE 0),
                                      !.choice[t] = IF pr.asked THEN pr.choice
                                                    ELSE "none"]
              IN  IF pr.choice = "n"
                  THEN [asked EXCEPT !.skipped = @ + 1]
                  ELSE IF pr.choice = "a"
                  THEN Copy([asked EXCEPT !.overwrite_all = TRUE], dry_run, t)
                  ELSE Copy(asked, dry_run, t)
    ELSE Copy(st, dry_run, t)

\* One iteration of `for rel_path in TEMPLATE_FILES`.
ProcessTemplate(st, in, dry_run, t, responses) ==
    IF t \notin in.srcPresent
    THEN [st EXCEPT !.warned = @ \cup {t}]
    ELSE IF NeedsDecision(st, t)
    THEN IF in.skip_existing
         THEN [st EXCEPT !.skipped = @ + 1]
         ELSE IF dry_run
         THEN [st EXCEPT !.skipped = @ + 1]
         ELSE LET pr == prompt_overwrite(in.non_interactive, responses)
                  asked == [st EXCEPT !.reads = @ + pr.reads,
                                      !.prompted[t] = @ + (IF pr.asked THEN 1 ELSE 0),
                                      !.choice[t] = IF pr.asked THEN pr.choice
                                                    ELSE "none"]
              IN  IF pr.choice = "n"
                  THEN [asked EXCEPT !.skipped = @ + 1]
                  ELSE IF pr.choice = "a"
                  THEN Copy([asked EXCEPT !.overwrite_all = TRUE], dry_run, t)
                  ELSE Copy(asked, dry_run, t)
    ELSE Copy(st, dry_run, t)

\* The locals of run() before the loop, over the target directory's files.
StartRun(in) ==
    [overwrite_all |-> in.force, copied |-> 0, skipped |-> 0,
     dest |-> [t \in Templates |-> IF t \in in.dest0 THEN "custom" ELSE "absent"],
     dirs |-> in.dirs0, wrote |-> {}, warned |-> {}, reads |-> 0,
     prompted |-> [t \in Templates |-> 0],
     choice |-> [t \in Templates |-> "none"],
     hinted |-> FALSE]

----------------------------------------------------------------------------
(* SpecInit: one init run over bounded inputs *)

\* Invalid lines typed before the valid answer to one overwrite question.
MaxInvalid == 1

RECURSIVE InvalidPrefixes(_)
InvalidPrefixes(n) ==
    IF n = 0 THEN {<<>>}
    ELSE InvalidPrefixes(n - 1)
         \cup {Append(p, x) : p \in InvalidPrefixes(n - 1), x \in {"yes"}}

ResponseSeqs ==
    {Append(p, v) : p \in InvalidPrefixes(MaxInvalid),
                    v \in {"", "n", " Y ", "a", "ALL"}}

\* --force and --skip-existing are a mutually exclusive argparse group.
InitFlags ==
    {x \in [dry_run : BOOLEAN, force : BOOLEAN, skip_existing : BOOLEAN,
            non_interactive : BOOLEAN] : ~(x.force /\ x.skip_existing)}

\* Packaged sources: any of the templates may be missing from the package.
SrcSets == SUBSET Templates

InitInputs ==
    {[dry_run |-> fl.dry_run, force |-> fl.force,
      skip_existing |-> fl.skip_existing,
      non_interactive |-> fl.non_interactive,
      srcPresent |-> src, dest0 |-> d0,
      dirs0 |-> {ParentDir(t) : t \in d0}] :
        fl \in InitFlags, src \in SrcSets, d0 \in SUBSET Templates}

InitInitVars ==
    /\ initPc = "loop"
    /\ initIn \in InitInputs
    /\ initIdx = 1
    /\ initRun = StartRun(initIn)
    /\ initTwin = StartRun(initIn)

InitInit ==
    /\ CfgIdle
    /\ TplIdle
    /\ CreateIdle
    /\ OutIdle
    /\ CliIdle
    /\ WalkIdle
    /\ InitInitVars

\* The loop body for the next template, in the run and in its twin.
ProcessNext ==
    /\ initPc = "loop"
    /\ initIdx <= Len(TEMPLATE_FILES)
    /\ LET t == TEMPLATE_FILES[initIdx]
       IN  \E responses \in
               IF \/ WouldAsk(initRun, initIn, initIn.dry_run, t)
                  \/ WouldAsk(initTwin, initIn, ~initIn.dry_run, t)
               THEN ResponseSeqs ELSE {<<"n">>} :
             /\ initRun' = ProcessTemplate(initRun, initIn, initIn.dry_run,
                                           t, responses)
             /\ initTwin' = ProcessTemplate(initTwin, initIn, ~initIn.dry_run,
                                            t, responses)
    /\ initIdx' = initIdx + 1
    /\ UNCHANGED <<initPc, initIn>>
    /\ UNCHANGED nonInitVars

\* The summary lines and the closing hint.
Hinted(st, dry_run) == [st EXCEPT !.hinted = (st.copied > 0 /\ ~dry_run)]

Summary ==
    /\ initPc = "loop"
    /\ initIdx = Len(TEMPLATE_FILES) + 1
    /\ initPc' = "done"
    /\ initRun' = Hinted(initRun, initIn.dry_run)
    /\ initTwin' = Hinted(initTwin, ~initIn.dry_run)
    /\ UNCHANGED <<initIn, initIdx>>
    /\ UNCHANGED nonInitVars

NextInit == ProcessNext \/ Summary

SpecInit == InitInit /\ [][NextInit]_vars

----------------------------------------------------------------------------
(* Claims on the init copy loop *)

IndexOf(t) == CHOOSE i \in 1..Len(TEMPLATE_FILES) : TEMPLATE_FILES[i] = t

\* Was 'overwrite all remaining' answered for t or for an earlier template?
AllAnsweredUpTo(st, t) ==
    \E j \in 1..IndexOf(t) : st.choice[TEMPLATE_FILES[j]] = "a"

NoOverwriteQuestion(st) ==
    st.reads = 0 /\ \A t \in Templates : st.prompted[t] = 0

Processed == {TEMPLATE_FILES[i] : i \in 1..(initIdx - 1)}

\* C30: in every init run each of the four templates is accounted for once:
\* a template whose packaged source is missing is warned about and counted
\* neither as copied nor as skipped, every other template adds one to the
\* copied or to the skipped count, the loop goes through all four whatever
\* is missing, and the counts reported at the end add up to four minus the
\* number of missing sources.
C30_TemplatesAccounted ==
    /\ initRun.warned = Processed \ initIn.srcPresent
    /\ initRun.copied + initRun.skipped
          = Cardinality(Processed \cap initIn.srcPresent)
    /\ ~initIn.dry_run => initRun.copied = Cardinality(initRun.wrote)
    /\ initPc = "done" =>
          /\ Processed = Templates
          /\ initRun.copied + initRun.skipped
                = Len(TEMPLATE_FILES)
                  - Cardinality(Templates \ initIn.srcPresent)

\* C30 witness: a finished run whose first two templates have no packaged
\* source and which copied one of the other two and skipped the other.
C30_Witness ==
    /\ initPc = "done"
    /\ initIn.srcPresent = {TEMPLATE_FILES[3], TEMPLATE_FILES[4]}
    /\ initRun.warned = {TEMPLATE_FILES[1], TEMPLATE_FILES[2]}
    /\ initRun.copied = 1 /\ initRun.skipped = 1

----------------------------------------------------------------------------
(* Regular expressions of configure.py *)

\* Text is a sequence of tokens.  The tokens DQ, SQ, NL and the one-character
\* strings are single characters; every other token is a run of characters
\* that the patterns and the inputs only ever use as a whole.
DQ == "\""

SQ == "'"

NL == "\n"

\* Pattern elements: a literal, `.*?`, `[^c]+` and `[^c]+?`.
Lit(text) == [t |-> "lit", s |-> text]

LazyAny == [t |-> "lazyany"]

NegPlus(c) == [t |-> "negplus", c |-> c, lazy |-> FALSE]

NegPlusLazy(c) == [t |-> "negplus", c |-> c, lazy |-> TRUE]

LitAt(text, s, i) ==
    /\ i + Len(text) - 1 <= Len(s)
    /\ \A k \in 1..Len(text) : s[i + k - 1] = text[k]

\* The end of the longest run of characters other than c that starts at i
\* (the position after its last character).
RECURSIVE RunEnd(_, _, _)
RunEnd(c, s, i) ==
    IF i <= Len(s) /\ s[i] /= c THEN RunEnd(c, s, i + 1) ELSE i

\* The backtracking matcher.  MatchFrom is the position after the match it
\* finds first for pat[k..] anchored at position i of s, 0 when there is
\* none.  Shortest tries the ends j, j + 1, ... of a lazy element, Longest
\* the ends j, j - 1, ... of a greedy one; `stop` is the last end allowed.
RECURSIVE MatchFrom(_, _, _, _)
RECURSIVE Shortest(_, _, _, _, _)
RECURSIVE Longest(_, _, _, _, _)
Shortest(pat, k, s, j, stop) ==
    IF j > stop THEN 0
    ELSE LET e == MatchFrom(pat, k + 1, s, j)
         IN  IF e /= 0 THEN e ELSE Shortest(pat, k, s, j + 1, stop)

Longest(pat, k, s, j, stop) ==
    IF j < stop THEN 0
    ELSE LET e == MatchFrom(pat, k + 1, s, j)
         IN  IF e /= 0 THEN e ELSE Longest(pat, k, s, j - 1, stop)

MatchFrom(pat, k, s, i) ==
    IF k > Len(pat) THEN i
    ELSE IF pat[k].t = "lit"
    THEN IF LitAt(pat[k].s, s, i)
         THEN MatchFrom(pat, k + 1, s, i + Len(pat[k].s))
         ELSE 0
    ELSE IF pat[k].t = "lazyany"
    THEN Shortest(pat, k, s, i, RunEnd(NL, s, i))
    ELSE IF pat[k].lazy
    THEN Shortest(pat, k, s, i + 1, RunEnd(pat[k].c, s, i))
    ELSE Longest(pat, k, s, RunEnd(pat[k].c, s, i), i + 1)

\* The leftmost match at or after position i: its start and the position
\* after its end; start 0 when there is none.  A pattern that begins with a
\* literal can only match where that literal's first token stands.
Search(pat, s, i) ==
    LET starts == {x \in i..Len(s) : /\ pat[1].t = "lit" => s[x] = pat[1].s[1]
                                     /\ MatchFrom(pat, 1, s, x) /= 0}
    IN  IF starts = {} THEN [start |-> 0, end |-> 0]
        ELSE LET first == CHOOSE x \in starts : \A y \in starts : x <= y
             IN  [start |-> first, end |-> MatchFrom(pat, 1, s, first)]

Splice(s, i, e, repl) ==
    SubSeq(s, 1, i - 1) \o repl \o SubSeq(s, e, Len(s))

\* re.subn(pattern, repl, content, count=1): the leftmost match only.
subn_first(pat, repl, s, from) ==
    LET m == Search(pat, s, from)
    IN  IF m.start = 0 THEN [content |-> s, count |-> 0]
        ELSE [content |-> Splice(s, m.start, m.end, repl), count |-> 1]

\* re.sub(pattern, repl, content): every non-overlapping match, left to
\* right.
RECURSIVE re_sub(_, _, _, _)
re_sub(pat, repl, s, from) ==
    LET m == Search(pat, s, from)
    IN  IF m.start = 0 THEN s
        ELSE re_sub(pat, repl, Splice(s, m.start, m.end, repl),
                    m.start + Len(repl))

\* template.format(**config): a template is a sequence of text runs and
\* {field} references.
Text(ts) == [t |-> "text", s |-> ts]

Field(name) == [t |-> "field", name |-> name]

RECURSIVE Format(_, _)
Format(template, config) ==
    IF template = <<>> THEN <<>>
    ELSE (IF Head(template).t = "text" THEN Head(template).s
          ELSE config[Head(template).name])
         \o Format(Tail(template), config)

----------------------------------------------------------------------------
(* The substitution lists of configure.py *)

Sp == " "

GitHubUrl == <<"https://", "github.com", "/">>

Rule(pattern, template, desc) ==
    [pattern |-> pattern, template |-> template, desc |-> desc]

\* const NAME = '[^']+';  ->  const NAME = '{field}';
JsConst(name, field, desc) ==
    Rule(<<Lit(<<"const ", name, " = ", SQ>>), NegPlus(SQ), Lit(<<SQ, ";">>)>>,
         <<Text(<<"const ", name, " = ", SQ>>), Field(field), Text(<<SQ, ";">>)>>,
         desc)

DashboardReplacements ==
    << Rule(<<Lit(<<"<title>">>), LazyAny,
              Lit(<<"- Project Statistics</title>">>)>>,
            <<Text(<<"<title>">>), Field("display_name_html"),
              Text(<<Sp, "- Project Statistics</title>">>)>>,
            "HTML title"),
       Rule(<<Lit(<<"href=", DQ>> \o GitHubUrl), NegPlusLazy(DQ),
              Lit(<<DQ, Sp, "class=", DQ, "banner-link", DQ>>)>>,
            <<Text(<<"href=", DQ>> \o GitHubUrl), Field("owner"),
              Text(<<"/">>), Field("repo"),
              Text(<<DQ, Sp, "class=", DQ, "banner-link", DQ>>)>>,
            "Banner link URL"),
       Rule(<<Lit(<<"<p", Sp, "class=", DQ, "banner-title", DQ, ">">>),
              LazyAny, Lit(<<"</p>">>)>>,
            <<Text(<<"<p", Sp, "class=", DQ, "banner-title", DQ, ">">>),
              Field("display_name_html"), Text(<<"</p>">>)>>,
            "Banner title"),
       Rule(<<Lit(<<"<a", Sp, "href=", DQ>> \o GitHubUrl), NegPlusLazy(DQ),
              Lit(<<DQ, ">", "Repository</a>">>)>>,
            <<Text(<<"<a", Sp, "href=", DQ>> \o GitHubUrl), Field("owner"),
              Text(<<"/">>), Field("repo"),
              Text(<<DQ, ">", "Repository</a>">>)>>,
            "Footer repo link"),
       Rule(<<Lit(<<"<a", Sp, "href=", DQ>> \o GitHubUrl), NegPlusLazy(DQ),
              Lit(<<"/", "releases", DQ, ">", "Releases</a>">>)>>,
            <<Text(<<"<a", Sp, "href=", DQ>> \o GitHubUrl), Field("owner"),
              Text(<<"/">>), Field("repo"),
              Text(<<"/", "releases", DQ, ">", "Releases</a>">>)>>,
            "Footer releases link"),
       Rule(<<Lit(<<"const ", "GIST_RAW_BASE", " = ", SQ>>), NegPlus(SQ),
              Lit(<<SQ, ";">>)>>,
            <<Text(<<"const ", "GIST_RAW_BASE", " = ", SQ,
                     "https://", "gist.githubusercontent.com", "/">>),
              Field("gh_username"), Text(<<"/">>), Field("badge_gist_id"),
              Text(<<"/", "raw", SQ, ";">>)>>,
            "Gist raw base URL"),
       JsConst("ARCHIVE_GIST_ID", "archive_gist_id", "Archive gist ID"),
       JsConst("REPO_OWNER", "owner", "Repo owner"),
       JsConst("REPO_NAME", "repo", "Repo name"),
       JsConst("REPO_CREATED", "created", "Repo creation date") >>

ReadmeReplacements ==
    << Rule(<<Lit(<<"[">>), LazyAny, Lit(<<"]", "(">> \o GitHubUrl),
              NegPlus(")"), Lit(<<")", ".">>)>>,
            <<Text(<<"[">>), Field("display_name"),
              Text(<<"]", "(">> \o GitHubUrl), Field("owner"), Text(<<"/">>),
              Field("repo"), Text(<<")", ".">>)>>,
            "Project link"),
       Rule(<<Lit(<<"[", "Badge Gist", "]", "(", "https://",
                    "gist.github.com", "/">>), NegPlus(")"), Lit(<<")">>)>>,
            <<Text(<<"[", "Badge Gist", "]", "(", "https://",
                     "gist.github.com", "/">>), Field("gh_username"),
              Text(<<"/">>), Field("badge_gist_id"), Text(<<")">>)>>,
            "Badge gist link"),
       Rule(<<Lit(<<"*", "*", "https://">>), NegPlus("*"),
              Lit(<<"/", "stats", "/", "*", "*">>)>>,
            <<Text(<<"*", "*", "https://">>), Field("owner_lower"),
              Text(<<".github.io", "/">>), Field("repo"),
              Text(<<"/", "stats", "/", "*", "*">>)>>,
            "Dashboard URL") >>

\* str.lower() applied to every character
LowerChar(c) == IF c = "O" THEN "o" ELSE IF c = "P" THEN "p" ELSE c

Lower(text) == [i \in 1..Len(text) |-> LowerChar(text[i])]

\* json.dumps of a list of strings free of quotes and backslashes
RECURSIVE JsonItems(_)
JsonItems(names) ==
    IF names = <<>> THEN <<>>
    ELSE <<DQ>> \o Head(names) \o <<DQ>>
         \o (IF Tail(names) = <<>> THEN <<>> ELSE <<",", Sp>>)
         \o JsonItems(Tail(names))

JsonDumps(names) == <<"[">> \o JsonItems(names) \o <<"]">>

Indent4 == <<Sp, Sp, Sp, Sp>>

WorkflowsPattern == <<Lit(<<"workflows:", Sp, "[">>), LazyAny, Lit(<<"]">>)>>

TriggerPattern ==
    <<Lit(<<Sp, Sp, "workflow_run:">>), LazyAny,
      Lit(<<NL>> \o Indent4 \o <<"workflows:">>), LazyAny,
      Lit(<<NL>> \o Indent4 \o <<"types:">>), LazyAny, Lit(<<NL>>)>>

TriggerCommentedOut ==
    <<Sp, Sp, "#", Sp, "workflow_run:",
      "            # Uncomment and set your CI workflow name to run after CI",
      NL, Sp, Sp, "#", Sp, Sp, Sp, "workflows:", Sp, "[", DQ, "CI", DQ, "]",
      NL, Sp, Sp, "#", Sp, Sp, Sp, "types:", Sp, "[", "completed", "]", NL>>

VersionPattern ==
    <<Lit(<<"version:", Sp, DQ>>), NegPlus(DQ), Lit(<<DQ, ",">>)>>

VersionLine == <<"version:", Sp, DQ, "0.1.0", DQ, ",">>

----------------------------------------------------------------------------
(* The template configurator: configure.py *)

TextFile(content) == [kind |-> "text", content |-> content]

\* The loop of apply_replacements over (pattern, template, description):
\* each rule that matches replaces its first match and counts one.
RECURSIVE ApplyRules(_, _, _, _)
ApplyRules(replacements, config, content, success) ==
    IF replacements = <<>> THEN [content |-> content, count |-> success]
    ELSE LET rule == Head(replacements)
             r == subn_first(rule.pattern, Format(rule.template, config),
                             content, 1)
         IN  ApplyRules(Tail(replacements), config, r.content,
                        success + r.count)

\* A fault: the new content is written in a dry run too.
apply_replacements_wet(file, replacements, config, dry_run) ==
    IF file.kind = "missing" THEN [count |-> 0, file |-> file]
    ELSE LET r == ApplyRules(replacements, config, file.content, 0)
         IN  [count |-> r.count, file |-> TextFile(r.content)]

\* Returns the count and the file as it is on disk afterwards.
apply_replacements(file, replacements, config, dry_run) ==
    IF file.kind = "missing" THEN [count |-> 0, file |-> file]
    ELSE LET r == ApplyRules(replacements, config, file.content, 0)
         IN  [count |-> r.count,
              file |-> IF ~dry_run /\ r.content /= file.content
                       THEN TextFile(r.content) ELSE file]

configure_dashboard(config, file, dry_run) ==
    apply_replacements(file, DashboardReplacements, config, dry_run)

configure_readme(config, file, dry_run) ==
    apply_replacements(file, ReadmeReplacements,
                       config @@ ("owner_lower" :> Lower(config["owner"])),
                       dry_run)

\* One re.sub step of configure_workflow: the content and the change count.
SubStep(st, pat, repl) ==
    LET new_content == re_sub(pat, repl, st.content, 1)
    IN  IF new_content /= st.content
        THEN [content |-> new_content, changes |-> st.changes + 1]
        ELSE st

configure_workflow(config, file, dry_run) ==
    IF file.kind = "missing" THEN [count |-> 0, file |-> file]
    ELSE LET st0 == [content |-> file.content, changes |-> 0]
             st1 == IF config["ci_workflows"] /= <<>>
                    THEN SubStep(st0, WorkflowsPattern,
                                 <<"workflows:", Sp>>
                                 \o JsonDumps(config["ci_workflows"]))
                    ELSE SubStep(st0, TriggerPattern, TriggerCommentedOut)
             st2 == SubStep(st1, VersionPattern, VersionLine)
         IN  [count |-> st2.changes,
              file |-> IF ~dry_run /\ st2.content /= file.content
                       THEN TextFile(st2.content) ELSE file]

----------------------------------------------------------------------------
(* SpecConfigure: configurator calls on bounded files and values *)

MaxPasses == 2

Targets == {"dashboard", "readme", "workflow"}

Config(owner, repo, name, name_html, badge, ci) ==
    ("owner" :> owner) @@ ("repo" :> repo) @@ ("display_name" :> name)
    @@ ("display_name_html" :> name_html) @@ ("gh_username" :> <<"u">>)
    @@ ("badge_gist_id" :> badge) @@ ("archive_gist_id" :> <<"a1">>)
    @@ ("created" :> <<"2026-01-01">>) @@ ("ci_workflows" :> ci)

\* The values the packaged templates carry.
PackagedConfig ==
    Config(<<"OWNER">>, <<"REPO">>, <<"Name">>, <<"Name">>, <<"b0">>, <<>>)

PlainConfig ==
    Config(<<"O">>, <<"r">>, <<"My", Sp, "App">>, <<"My", Sp, "App">>,
           <<"b1">>, <<>>)

CiConfig ==
    Config(<<"p">>, <<"q">>, <<"Q">>, <<"Q">>, <<"b2">>,
           << <<"CI">>, <<"Build">> >>)

\* Values that carry the characters the patterns end on.
BracketConfig ==
    Config(<<"O">>, <<"r">>, <<"T">>, <<"A", "</p>", "B">>, <<"b1">>,
           << <<"Build", Sp, "[", "linux", "]">> >>)

Configs == {PlainConfig, CiConfig, BracketConfig}

RECURSIVE Lines(_, _)
Lines(replacements, config) ==
    IF replacements = <<>> THEN <<>>
    ELSE Format(Head(replacements).template, config) \o <<NL>>
         \o Lines(Tail(replacements), config)

DashboardPage == <<"<html>", NL>> \o Lines(DashboardReplacements, PackagedConfig)

ReadmePage ==
    <<"#", Sp, "Stats", NL>>
    \o Lines(ReadmeReplacements,
             PackagedConfig @@ ("owner_lower" :> <<"owner">>))

WorkflowFile(version) ==
    <<"on:", NL, Sp, Sp, "workflow_run:", NL>>
    \o Indent4 \o <<"workflows:", Sp, "[", DQ, "CI", DQ, "]", NL>>
    \o Indent4 \o <<"types:", Sp, "[", "completed", "]", NL>>
    \o <<"version:", Sp, DQ, version, DQ, ",", NL>>

\* A page of the user's own: the title twice, nothing else that matches.
CustomPage ==
    <<"<title>", "X", Sp, "- Project Statistics</title>", NL,
      "<title>", "Y", Sp, "- Project Statistics</title>", NL>>

CustomWorkflow ==
    WorkflowFile("0.0.1") \o <<"version:", Sp, DQ, "0.0.2", DQ, ",", NL>>

PackagedDisk ==
    ("dashboard" :> TextFile(DashboardPage))
    @@ ("readme" :> TextFile(ReadmePage))
    @@ ("workflow" :> TextFile(WorkflowFile("0.0.1")))

Disks ==
    { [t \in Targets |-> MissingFile],
      PackagedDisk,
      ("dashboard" :> TextFile(CustomPage))
      @@ ("readme" :> TextFile(<<"nothing to match", NL>>))
      @@ ("workflow" :> TextFile(CustomWorkflow)) }

InitConfigureVars ==
    /\ tplDisk \in Disks
    /\ tplPasses = <<>>

InitConfigure ==
    /\ CfgIdle
    /\ InitIdle
    /\ CreateIdle
    /\ OutIdle
    /\ CliIdle
    /\ WalkIdle
    /\ InitConfigureVars

\* One call of a wrapper on its target file.  The record keeps the call,
\* its result, and the count the same call returns with the flag flipped.
Pass(target, config, dry_run, r, flipped) ==
    [target |-> target, config |-> config, dry_run |-> dry_run,
     count |-> r.count, before |-> tplDisk[target], after |-> r.file,
     flipped_count |-> flipped.count]

\* A wrapper runs when the deployer is not running; the passes are bounded.
CanConfigure ==
    /\ initPc \in {"off", "done"}
    /\ Len(tplPasses) < MaxPasses

Configure(target, config, dry_run, r, flipped) ==
    /\ tplDisk' = [tplDisk EXCEPT ![target] = r.file]
    /\ tplPasses' = Append(tplPasses, Pass(target, config, dry_run, r, flipped))
    /\ UNCHANGED nonTplVars

\* Each wrapper is evaluated once with and once without the flag; the pass
\* taken records the count of the other one beside its own.
ConfigureDashboard ==
    /\ CanConfigure
    /\ \E config \in Configs :
        \E wet \in {configure_dashboard(config, tplDisk["dashboard"], FALSE)} :
        \E dry \in {configure_dashboard(config, tplDisk["dashboard"], TRUE)} :
            \/ Configure("dashboard", config, FALSE, wet, dry)
            \/ Configure("dashboard", config, TRUE, dry, wet)

ConfigureReadme ==
    /\ CanConfigure
    /\ \E config \in Configs :
        \E wet \in {configure_readme(config, tplDisk["readme"], FALSE)} :
        \E dry \in {configure_readme(config, tplDisk["readme"], TRUE)} :
            \/ Configure("readme", config, FALSE, wet, dry)
            \/ Configure("readme", config, TRUE, dry, wet)

ConfigureWorkflow ==
    /\ CanConfigure
    /\ \E config \in Configs :
        \E wet \in {configure_workflow(config, tplDisk["workflow"], FALSE)} :
        \E dry \in {configure_workflow(config, tplDisk["workflow"], TRUE)} :
            \/ Configure("workflow", config, FALSE, wet, dry)
            \/ Configure("workflow", config, TRUE, dry, wet)

NextConfigure == ConfigureDashboard \/ ConfigureReadme \/ ConfigureWorkflow

SpecConfigure == InitConfigure /\ [][NextConfigure]_vars

----------------------------------------------------------------------------
(* SpecTemplates: an init run followed by configurator calls *)

\* A dry run of init (its twin is the real run) into a directory that holds
\* the dashboard page already, with every flag combination; the configurator
\* then works on the packaged files.
TemplatesInputs ==
    {in \in InitInputs : /\ in.dry_run
                         /\ in.srcPresent = Templates
                         /\ in.dest0 = {TEMPLATE_FILES[1]}}

InitTemplates ==
    /\ CfgIdle
    /\ CreateIdle
    /\ OutIdle
    /\ CliIdle
    /\ WalkIdle
    /\ InitInitVars
    /\ initIn \in TemplatesInputs
    /\ tplDisk = PackagedDisk
    /\ tplPasses = <<>>

NextTemplates == NextInit \/ NextConfigure

SpecTemplates == InitTemplates /\ [][NextTemplates]_vars

----------------------------------------------------------------------------
(* Claims on the template configurator *)

\* Pass p wrote (was not a dry run) and pass p + 1 repeats it: the same
\* wrapper on the same file with the same values, again not a dry run.
Repeated(p) ==
    /\ p + 1 <= Len(tplPasses)
    /\ tplPasses[p + 1].target = tplPasses[p].target
    /\ tplPasses[p + 1].config = tplPasses[p].config
    /\ ~tplPasses[p].dry_run
    /\ ~tplPasses[p + 1].dry_run

\* C2: running a wrapper a second time with the same values on the file the
\* first non-dry-run pass produced leaves the content as the first pass left
\* it.
C2_SecondPassSameContent ==
    \A p \in 1..Len(tplPasses) :
        Repeated(p) => tplPasses[p + 1].after = tplPasses[p].after

\* C3: a second configure_dashboard or configure_readme pass with the same
\* values on the already-substituted file returns a match count of zero.
C3_SecondPassZeroMatches ==
    \A p \in 1..Len(tplPasses) :
        (Repeated(p) /\ tplPasses[p].target \in {"dashboard", "readme"})
            => tplPasses[p + 1].count = 0

\* The texts of the matches of a pattern, left to right.
RECURSIVE MatchTexts(_, _, _)
MatchTexts(pat, s, from) ==
    LET m == Search(pat, s, from)
    IN  IF m.start = 0 THEN <<>>
        ELSE <<SubSeq(s, m.start, m.end - 1)>>
             \o (IF m.end > m.start THEN MatchTexts(pat, s, m.end) ELSE <<>>)

\* Every match of the pattern after the first is in the new content as it
\* was in the old one.
KeepsOthers(pat, old, new) ==
    LET b == MatchTexts(pat, old, 1)
        a == MatchTexts(pat, new, 1)
    IN  Len(b) >= 2 =>
            /\ Len(a) >= Len(b) - 1
            /\ \A k \in 2..Len(b) : a[Len(a) - Len(b) + k] = b[k]

\* The patterns a pass substitutes.
PatternsOf(pass) ==
    IF pass.target = "dashboard"
    THEN {DashboardReplacements[k].pattern :
             k \in 1..Len(DashboardReplacements)}
    ELSE IF pass.target = "readme"
    THEN {ReadmeReplacements[k].pattern : k \in 1..Len(ReadmeReplacements)}
    ELSE {VersionPattern,
          IF pass.config["ci_workflows"] /= <<>> THEN WorkflowsPattern
          ELSE TriggerPattern}

\* C26: a pass of a wrapper rewrites at most the first match of each of its
\* patterns: in a file that holds several matches of a pattern, the matches
\* after the first are unchanged by the pass.
C26_FirstMatchOnly ==
    \A p \in 1..Len(tplPasses) :
        (~tplPasses[p].dry_run /\ tplPasses[p].before.kind = "text") =>
            \A pat \in PatternsOf(tplPasses[p]) :
                KeepsOthers(pat, tplPasses[p].before.content,
                            tplPasses[p].after.content)

----------------------------------------------------------------------------
(* Claims on dry runs, over SpecTemplates *)

\* The run of the pair that was given the dry-run flag, and the other one.
DryRunOf == IF initIn.dry_run THEN initRun ELSE initTwin

RealRunOf == IF initIn.dry_run THEN initTwin ELSE initRun

\* C4: with dry-run set neither init nor a configurator wrapper writes: no
\* template is copied, no destination directory is created and no target
\* file is modified, whatever the flags, the answers and the values.
C4_DryRunWritesNothing ==
    /\ initPc \in {"loop", "done"} =>
          /\ DryRunOf.dest = StartRun(initIn).dest
          /\ DryRunOf.dirs = initIn.dirs0
          /\ DryRunOf.wrote = {}
    /\ \A p \in 1..Len(tplPasses) :
          tplPasses[p].dry_run => tplPasses[p].after = tplPasses[p].before

\* C4 witness: a dry run of init has finished having counted three files it
\* would copy while the same invocation without the flag wrote them and
\* created their directories; then a dry-run dashboard pass matched all ten
\* patterns and left the page as it was, and the same call without the flag
\* rewrote the page.
C4_Witness ==
    /\ initPc = "done"
    /\ DryRunOf.copied = 3
    /\ RealRunOf.wrote = Templates \ initIn.dest0
    /\ RealRunOf.dirs /= initIn.dirs0
    /\ Len(tplPasses) = 2
    /\ tplPasses[1].target = "dashboard" /\ tplPasses[1].dry_run
    /\ tplPasses[1].count = 10
    /\ tplPasses[1].after = TextFile(DashboardPage)
    /\ tplPasses[2].target = "dashboard" /\ ~tplPasses[2].dry_run
    /\ tplPasses[2].config = tplPasses[1].config
    /\ tplPasses[2].after /= tplPasses[2].before

\* C5 as stated: for identical inputs a dry run returns the counts of the
\* run without the flag: the same match count from the configurator, the
\* same copied and skipped numbers from init.
C5_Original ==
    /\ initPc = "done" =>
          /\ DryRunOf.copied = RealRunOf.copied
          /\ DryRunOf.skipped = RealRunOf.skipped
    /\ \A p \in 1..Len(tplPasses) :
          tplPasses[p].count = tplPasses[p].flipped_count

\* The real run was told to overwrite: 'y' or 'a' to some question.
ToldToOverwrite == \E t \in Templates : RealRunOf.choice[t] \in {"y", "a"}

\* C5 amended: the configurator returns the same count with and without the
\* flag; init reports the same copied and skipped numbers provided no
\* overwrite question of the real run is answered 'y' or 'a' (a dry run
\* asks nothing and counts such a file as skipped).
C5_SameCounts ==
    /\ (initPc = "done" /\ ~ToldToOverwrite) =>
          /\ DryRunOf.copied = RealRunOf.copied
          /\ DryRunOf.skipped = RealRunOf.skipped
    /\ \A p \in 1..Len(tplPasses) :
          tplPasses[p].count = tplPasses[p].flipped_count

\* C5 witness: an interactive run asked about the existing workflow file and
\* was answered 'n'; it and its dry run both report three copied and one
\* skipped; a dry-run readme pass then matched three patterns, as the call
\* without the flag does.
C5_Witness ==
    /\ initPc = "done"
    /\ RealRunOf.prompted[TEMPLATE_FILES[1]] = 1
    /\ RealRunOf.choice[TEMPLATE_FILES[1]] = "n"
    /\ DryRunOf.copied = 3 /\ RealRunOf.copied = 3
    /\ DryRunOf.skipped = 1 /\ RealRunOf.skipped = 1
    /\ Len(tplPasses) = 1
    /\ tplPasses[1].target = "readme" /\ tplPasses[1].dry_run
    /\ tplPasses[1].count = 3 /\ tplPasses[1].flipped_count = 3

----------------------------------------------------------------------------
(* The create command: commands/create.py *)

\* Dates are written character by character.
Digits == {"0", "1", "2", "3", "4", "5", "6", "7", "8", "9"}

Jan1 == <<"2", "0", "2", "6", "-", "0", "1", "-", "0", "1">>

SlashDate == <<"0", "1", "/", "0", "1", "/", "2", "0", "2", "6">>

\* date.today().isoformat()
Today == <<"2", "0", "2", "6", "-", "1", "1", "-", "0", "5">>

\* re.match(r"^\d{4}-\d{2}-\d{2}$", created): four digits, a dash, two
\* digits, a dash, two digits, and then `$`, which stands at the end of the
\* string and also just before a newline that ends it.
IsDate(text) ==
    /\ Len(text) >= 10
    /\ \A k \in {1, 2, 3, 4, 6, 7, 9, 10} : text[k] \in Digits
    /\ text[5] = "-" /\ text[8] = "-"
    /\ \/ Len(text) = 10
       \/ Len(text) = 11 /\ text[11] = NL

\* str.title() after "-" and "_" became spaces
TitleWord(w) ==
    IF w \in {"-", "_"} THEN Sp ELSE IF w = "widget" THEN "Widget" ELSE w

Title(text) == [i \in 1..Len(text) |-> TitleWord(text[i])]

\* html.escape(s)
EscapeChar(c) ==
    IF c = "&" THEN "&amp;" ELSE IF c = "<" THEN "&lt;"
    ELSE IF c = ">" THEN "&gt;" ELSE IF c = DQ THEN "&quot;"
    ELSE IF c = SQ THEN "&#x27;" ELSE c

HtmlEscape(text) == [i \in 1..Len(text) |-> EscapeChar(text[i])]

\* prompt(label, default): the typed value, or the default on Enter
PromptDefault(typed, default) == PyOr(typed, default)

Failed(error, log) == [ok |-> FALSE, config |-> EmptyDict, log |-> log \o <<error>>]

\* _gather_config.  `typed` holds what the user types at each question and
\* what GitHub reports as the creation date; the result carries the config,
\* or the error the function exits on, and the questions put.
gather_config(args, typed) ==
    LET non_interactive == args.non_interactive
        askOwner == ~Truthy(args.owner) /\ ~non_interactive
        log1 == IF askOwner THEN <<"ask owner">> ELSE <<>>
        owner == IF Truthy(args.owner) THEN args.owner ELSE typed.owner
        askRepo == ~Truthy(args.repo) /\ ~non_interactive
        log2 == log1 \o (IF askRepo THEN <<"ask repo">> ELSE <<>>)
        repo == IF Truthy(args.repo) THEN args.repo ELSE typed.repo
        askCreated == ~Truthy(args.created) /\ ~non_interactive
        created == IF Truthy(args.created) THEN args.created
                   ELSE IF non_interactive THEN PyOr(typed.auto_date, Today)
                   ELSE IF Truthy(typed.auto_date)
                   THEN PromptDefault(typed.created, typed.auto_date)
                   ELSE PromptDefault(typed.created, Today)
        askName == ~Truthy(args.display_name) /\ ~non_interactive
        display_name == IF Truthy(args.display_name) THEN args.display_name
                        ELSE IF non_interactive THEN Title(repo)
                        ELSE PromptDefault(typed.display_name, Title(repo))
        askCi == ~args.ci_given /\ ~non_interactive
        ci_workflows == IF args.ci_given THEN args.ci_workflows
                        ELSE IF non_interactive THEN <<>>
                        ELSE typed.ci_workflows
        log3 == log2 \o (IF askCreated THEN <<"ask created">> ELSE <<>>)
                     \o (IF askName THEN <<"ask display name">> ELSE <<>>)
                     \o (IF askCi THEN <<"ask ci workflows">> ELSE <<>>)
    IN  IF ~Truthy(args.owner) /\ non_interactive
        THEN Failed("ERROR: --owner is required in non-interactive mode.", <<>>)
        ELSE IF ~Truthy(owner)
        THEN Failed("ERROR: GitHub owner is required.", log1)
        ELSE IF ~Truthy(args.repo) /\ non_interactive
        THEN Failed("ERROR: --repo is required in non-interactive mode.", log1)
        ELSE IF ~Truthy(repo)
        THEN Failed("ERROR: Repository name is required.", log2)
        ELSE [ok |-> TRUE, log |-> log3,
              config |-> ("owner" :> owner) @@ ("repo" :> repo)
                         @@ ("gh_repo" :> RepoKeyOf(owner, repo))
                         @@ ("created" :> created)
                         @@ ("display_name" :> display_name)
                         @@ ("ci_workflows" :> ci_workflows)
                         @@ ("display_name_html" :> HtmlEscape(display_name))]

save_project_config_merged(data) == JsonFile(data @@ load_json(projectFile))

\* json.dump of the mapping over the previous file content
save_project_config(data) == JsonFile(data)

\* The mapping create saves as the project settings file.
project_cfg(config) ==
    LET base == (KOwner :> config["owner"]) @@ (KRepo :> config["repo"])
                @@ (KCreated :> config["created"])
                @@ (KDisplay :> config["display_name"])
                @@ (KBadge :> config["badge_gist_id"])
                @@ (KArchive :> config["archive_gist_id"])
                @@ (<<"dashboard", "_", "dir">> :> <<"docs/stats">>)
                @@ (<<"schema", "_", "version">> :> 1)
    IN  IF config["ci_workflows"] /= <<>>
        THEN base @@ (<<"ci", "_", "workflows">> :> config["ci_workflows"])
        ELSE base

\* A gist id GitHub hands out: the n-th gist gets n characters.
GistId(n) == [k \in 1..n |-> "f"]

\* The files of the two gists, in the order they are listed.
BadgeFileNames ==
    <<"state.json", "installs.json", "downloads.json", "clones.json",
      "views.json">>

ArchiveFileNames == <<"archive.json">>

BadgeFiles == {BadgeFileNames[i] : i \in 1..Len(BadgeFileNames)}

ArchiveFiles == {ArchiveFileNames[i] : i \in 1..Len(ArchiveFileNames)}

----------------------------------------------------------------------------
(* SpecCreate: create invocations in one repository directory *)

MaxCreates == 2

\* The directory of the invocations, as str(repo_dir).
WorkDir == <<"/work">>

CreateArgs(who, created, dry_run, non_interactive, opts) ==
    [owner |-> who[1], repo |-> who[2], created |-> created,
     display_name |-> Null, ci_given |-> opts[3] /= <<>>,
     ci_workflows |-> opts[3], dry_run |-> dry_run,
     non_interactive |-> non_interactive,
     skip_variables |-> opts[1], configure_files |-> opts[2],
     gist_token_name |-> "TRAFFIC_GIST_TOKEN"]

\* The command lines tried.  With owner and repo: the plain options with no
\* date, a date and a date written with slashes; the file configuration, the
\* skipped variables with a CI workflow, and a date followed by a newline,
\* without questions.  Without owner and repo, or without repo: the plain
\* options.
CreateArgsSet ==
    {CreateArgs(<<<<"acme">>, <<"widget">>>>, created, dry_run,
                non_interactive, <<FALSE, FALSE, <<>>>>) :
        created \in {Null, Jan1, SlashDate},
        dry_run \in BOOLEAN, non_interactive \in BOOLEAN}
    \cup {CreateArgs(<<<<"acme">>, <<"widget">>>>, Jan1, dry_run,
                     TRUE, <<FALSE, TRUE, <<>>>>) : dry_run \in BOOLEAN}
    \cup {CreateArgs(<<<<"acme">>, <<"widget">>>>, created, FALSE, TRUE,
                     opts) :
             <<created, opts>> \in
                 {<<Jan1, <<TRUE, TRUE, << <<"CI">> >> >> >>,
                  <<Jan1 \o <<NL>>, <<FALSE, TRUE, <<>>>> >>}}
    \cup {CreateArgs(<<Null, Null>>, created, dry_run, non_interactive,
                     <<FALSE, FALSE, <<>>>>) :
             created \in {Null, Jan1},
             dry_run \in BOOLEAN, non_interactive \in BOOLEAN}
    \cup {CreateArgs(<<<<"acme">>, Null>>, Jan1, FALSE, non_interactive,
                     <<FALSE, FALSE, <<>>>>) :
             non_interactive \in BOOLEAN}

\* What the user types at the questions of _gather_config, and the creation
\* date GitHub reports.
Typed(owner, auto_date, created) ==
    [owner |-> owner, repo |-> <<"widget">>, auto_date |-> auto_date,
     created |-> created, display_name |-> <<>>, ci_workflows |-> <<>>]

TypedSet ==
    {Typed(<<"acme">>, Null, <<>>), Typed(<<>>, Null, <<>>),
     Typed(<<"acme">>, Jan1, <<>>), Typed(<<"acme">>, Null, SlashDate)}

InitCreateVars ==
    /\ createPc = "idle"
    /\ createCall = [kind |-> "none"]
    /\ createCfg = [kind |-> "none"]
    /\ createLog = <<>>
    /\ createExit = [kind |-> "none"]
    /\ createRuns = 0
    /\ ghGists = <<>>
    /\ ghVars = <<>>

InitCreate ==
    /\ CfgIdle
    /\ InitIdle
    /\ OutIdle
    /\ CliIdle
    /\ WalkIdle
    /\ InitCreateVars
    /\ tplDisk = PackagedDisk
    /\ tplPasses = <<>>

Args == createCall.args

\* sys.exit(code) or `return code`, after printing `line`
Ends(code, line) ==
    /\ createPc' = "ended"
    /\ createExit' = [kind |-> "exit", code |-> code]
    /\ createLog' = Append(createLog, line)

Goes(pc, lines) ==
    /\ createPc' = pc
    /\ createLog' = createLog \o lines
    /\ UNCHANGED createExit

StartCreate ==
    /\ createPc \in {"idle", "ended"}
    /\ createRuns < MaxCreates
    /\ \E args \in CreateArgsSet :
          /\ createCall' = [kind |-> "create", args |-> args,
                            project_before |-> projectFile,
                            global_before |-> globalFile,
                            gists_before |-> ghGists,
                            vars_before |-> ghVars,
                            disk_before |-> tplDisk]
          /\ createLog' = IF args.dry_run THEN <<"[DRY RUN MODE]">> ELSE <<>>
    /\ createPc' = "prereq"
    /\ createCfg' = EmptyDict
    /\ createExit' = [kind |-> "none"]
    /\ createRuns' = createRuns + 1
    /\ UNCHANGED <<ghGists, ghVars, projectFile, globalFile, tplDisk>>
    /\ UNCHANGED nonCreateVars

\* check_gh_installed, check_gh_authenticated, check_gh_scopes and
\* resolve_github_username
Prereqs ==
    /\ createPc = "prereq"
    /\ \E gh \in {"ok", "not installed", "not authenticated", "no gist scope",
                  "api failure"} :
          IF gh = "not installed" THEN Ends(1, "ERROR: gh CLI not found.")
          ELSE IF gh = "not authenticated"
          THEN Ends(1, "ERROR: Not authenticated with GitHub CLI.")
          ELSE IF gh = "api failure" THEN Ends(1, "ERROR: gh api user")
          ELSE IF gh = "no gist scope" /\ ~Args.non_interactive
          THEN \E resp \in {"y", ""} :
                  IF resp /= "y" THEN Ends(1, "ask continue anyway")
                  ELSE Goes("gather", <<"ask continue anyway",
                                        "GitHub username">>)
          ELSE Goes("gather", <<"GitHub username">>)
    /\ UNCHANGED <<createCall, createCfg, createRuns, ghGists, ghVars,
                   projectFile, globalFile, tplDisk>>
    /\ UNCHANGED nonCreateVars

Gather ==
    /\ createPc = "gather"
    /\ \E typed \in TypedSet :
          LET g == gather_config(Args, typed)
          IN  IF g.ok
              THEN /\ Goes("validate", g.log \o <<"config gathered">>)
                   /\ createCfg' = g.config @@ ("gh_username" :> <<"u">>)
                                   @@ ("gist_token_name" :> Args.gist_token_name)
                                   @@ ("non_interactive" :> Args.non_interactive)
              ELSE /\ createPc' = "ended"
                   /\ createExit' = [kind |-> "exit", code |-> 1]
                   /\ createLog' = createLog \o g.log
                   /\ UNCHANGED createCfg
    /\ UNCHANGED <<createCall, createRuns, ghGists, ghVars,
                   projectFile, globalFile, tplDisk>>
    /\ UNCHANGED nonCreateVars

\* _validate_config, the summary and the "Proceed?" question
Validate ==
    /\ createPc = "validate"
    /\ IF ~IsDate(createCfg["created"])
       THEN Ends(1, "ERROR: Invalid date format")
       ELSE \E repo_exists \in BOOLEAN, resp \in {"", "n"} :
               LET warned == IF repo_exists THEN <<>>
                             ELSE <<"WARN: repository not found",
                                    "This is OK if you haven't created it yet.">>
               IN  IF ~Args.non_interactive /\ ~Args.dry_run
                   THEN IF resp = "n"
                        THEN /\ createPc' = "ended"
                             /\ createExit' = [kind |-> "exit", code |-> 0]
                             /\ createLog' = createLog \o warned
                                   \o <<"ask proceed", "Setup cancelled.">>
                        ELSE Goes("badge", warned \o <<"ask proceed">>)
                   ELSE Goes("badge", warned)
    /\ UNCHANGED <<createCall, createCfg, createRuns, ghGists, ghVars,
                   projectFile, globalFile, tplDisk>>
    /\ UNCHANGED nonCreateVars

CreateGistUnchecked(key, public, names, suffix, placeholder, next) ==
    /\ IF Args.dry_run
       THEN /\ Goes(next, <<IF public THEN "Would create PUBLIC gist"
                             ELSE "Would create UNLISTED gist">> \o names)
            /\ createCfg' = createCfg @@ (key :> <<placeholder>>)
            /\ UNCHANGED ghGists
       ELSE \E ok \in BOOLEAN :
               IF ok
               THEN /\ Goes(next, <<"POST gists">>)
                    /\ ghGists' = Append(ghGists,
                          [public |-> public,
                           files |-> {names[i] : i \in 1..Len(names)},
                           description |-> createCfg["gh_repo"] \o <<suffix>>])
                    /\ createCfg' = createCfg
                                    @@ (key :> GistId(Len(ghGists) + 1))
               ELSE /\ Goes(next, <<"ERROR: gh api gists">>)
                    /\ createCfg' = createCfg @@ (key :> <<>>)
                    /\ UNCHANGED ghGists
    /\ UNCHANGED <<createCall, createRuns, ghVars, projectFile, globalFile,
                   tplDisk>>
    /\ UNCHANGED nonCreateVars

\* One gist.create_*_gist call: a dry run returns the placeholder id; the
\* request either fails, and run_gh exits, or GitHub stores the gist.
CreateGist(key, public, names, suffix, placeholder, next) ==
    /\ IF Args.dry_run
       THEN /\ Goes(next, <<IF public THEN "Would create PUBLIC gist"
                             ELSE "Would create UNLISTED gist">> \o names)
            /\ createCfg' = createCfg @@ (key :> <<placeholder>>)
            /\ UNCHANGED ghGists
       ELSE \E ok \in BOOLEAN :
               IF ok
               THEN /\ Goes(next, <<"POST gists">>)
                    /\ ghGists' = Append(ghGists,
                          [public |-> public,
                           files |-> {names[i] : i \in 1..Len(names)},
                           description |-> createCfg["gh_repo"] \o <<suffix>>])
                    /\ createCfg' = createCfg
                                    @@ (key :> GistId(Len(ghGists) + 1))
               ELSE /\ Ends(1, "ERROR: gh api gists")
                    /\ UNCHANGED <<ghGists, createCfg>>
    /\ UNCHANGED <<createCall, createRuns, ghVars, projectFile, globalFile,
                   tplDisk>>
    /\ UNCHANGED nonCreateVars

CreateBadgeGist ==
    /\ createPc = "badge"
    /\ CreateGist("badge_gist_id", TRUE, BadgeFileNames, " traffic badges",
                  "<DRY_RUN_BADGE_GIST_ID>", "archive")

CreateArchiveGistPublic ==
    /\ createPc = "archive"
    /\ CreateGist("archive_gist_id", TRUE, ArchiveFileNames, " traffic archive",
                  "<DRY_RUN_ARCHIVE_GIST_ID>", "variables")

CreateArchiveGist ==
    /\ createPc = "archive"
    /\ CreateGist("archive_gist_id", FALSE, ArchiveFileNames, " traffic archive",
                  "<DRY_RUN_ARCHIVE_GIST_ID>", "variables")

\* gh.set_repo_variable and the report of its result
SetVariable(name, value, ok, st) ==
    IF ok
    THEN [vars |-> DictSet(st.vars, name, value),
          lines |-> st.lines \o <<"OK: " \o name>>]
    ELSE [vars |-> st.vars,
          lines |-> st.lines \o <<"WARN: Could not set " \o name,
                                  "Run manually: gh variable set " \o name>>]

\* _guide_token_setup when it is not a dry run
guide_token_setup(token_name, non_interactive, token, ok, st) ==
    IF non_interactive
    THEN [vars |-> st.vars, lines |-> st.lines \o <<"Then run: gh secret set">>]
    ELSE IF token = <<>>
    THEN [vars |-> st.vars,
          lines |-> st.lines \o <<"ask PAT", "SKIP: PAT not provided",
                                  "Remember to run: gh secret set">>]
    ELSE IF ok
    THEN [vars |-> DictSet(st.vars, token_name, token),
          lines |-> st.lines \o <<"ask PAT", "set secret">>]
    ELSE [vars |-> st.vars,
          lines |-> st.lines \o <<"ask PAT", "WARN: Could not set secret.",
                                  "Run manually: gh secret set">>]

\* What GitHub answers to the three requests of step 3, and what the user
\* pastes at the question for the token.  Without a token typed there is no
\* third request.
VariableOutcomes ==
    {<<TRUE, TRUE, TRUE, <<"pat">>>>, <<FALSE, TRUE, TRUE, <<"pat">>>>,
     <<FALSE, FALSE, FALSE, <<"pat">>>>,
     <<TRUE, TRUE, TRUE, <<>>>>}

SetVariablesAborting ==
    /\ createPc = "variables"
    /\ IF Args.skip_variables
       THEN Goes("configure", <<>>) /\ UNCHANGED <<ghVars, createExit>>
       ELSE IF Args.dry_run
       THEN /\ Goes("configure", <<"Would set variables",
                                   "Would prompt for PAT">>)
            /\ UNCHANGED ghVars
       ELSE \E o \in VariableOutcomes :
               LET st1 == SetVariable("TRAFFIC_GIST_ID",
                              createCfg["badge_gist_id"], o[1],
                              [vars |-> ghVars, lines |-> <<>>])
               IN  IF ~o[1]
                   THEN /\ createPc' = "ended"
                        /\ createExit' = [kind |-> "exit", code |-> 1]
                        /\ createLog' = createLog \o st1.lines
                        /\ UNCHANGED ghVars
                   ELSE LET st2 == SetVariable("TRAFFIC_ARCHIVE_GIST_ID",
                                       createCfg["archive_gist_id"], o[2], st1)
                            st3 == guide_token_setup(Args.gist_token_name,
                                       Args.non_interactive, o[4], o[3], st2)
                        IN  /\ Goes("configure", st3.lines)
                            /\ ghVars' = st3.vars
    /\ UNCHANGED <<createCall, createCfg, createRuns, ghGists,
                   projectFile, globalFile, tplDisk>>
    /\ UNCHANGED nonCreateVars

\* Step 3: the two repository variables, then _guide_token_setup.
SetVariables ==
    /\ createPc = "variables"
    /\ IF Args.skip_variables
       THEN Goes("configure", <<>>) /\ UNCHANGED ghVars
       ELSE IF Args.dry_run
       THEN /\ Goes("configure", <<"Would set variables",
                                   "Would prompt for PAT">>)
            /\ UNCHANGED ghVars
       ELSE \E o \in VariableOutcomes :
               LET st1 == SetVariable("TRAFFIC_GIST_ID",
                              createCfg["badge_gist_id"], o[1],
                              [vars |-> ghVars, lines |-> <<>>])
                   st2 == SetVariable("TRAFFIC_ARCHIVE_GIST_ID",
                              createCfg["archive_gist_id"], o[2], st1)
                   st3 == guide_token_setup(Args.gist_token_name,
                              Args.non_interactive, o[4], o[3], st2)
               IN  /\ Goes("configure", st3.lines)
                   /\ ghVars' = st3.vars
    /\ UNCHANGED <<createCall, createCfg, createRuns, ghGists,
                   projectFile, globalFile, tplDisk>>
    /\ UNCHANGED nonCreateVars

\* Step 4: the three wrappers on the files of the directory
ConfigureFiles ==
    /\ createPc = "configure"
    /\ IF Args.configure_files
       THEN /\ tplDisk' =
                 [t \in Targets |->
                     IF t = "dashboard"
                     THEN configure_dashboard(createCfg, tplDisk[t], Args.dry_run).file
                     ELSE IF t = "readme"
                     THEN configure_readme(createCfg, tplDisk[t], Args.dry_run).file
                     ELSE configure_workflow(createCfg, tplDisk[t], Args.dry_run).file]
            /\ Goes("save", <<"configure files">>)
       ELSE Goes("save", <<>>) /\ UNCHANGED tplDisk
    /\ UNCHANGED <<createCall, createCfg, createRuns, ghGists, ghVars,
                   projectFile, globalFile>>
    /\ UNCHANGED nonCreateVars

SaveConfigWet ==
    /\ createPc = "save"
    /\ projectFile' = save_project_config(project_cfg(createCfg))
    /\ globalFile' = save_global_config(
          register_repo_globally(globalFile, createCfg["owner"],
              createCfg["repo"], createCfg["badge_gist_id"],
              createCfg["archive_gist_id"], WorkDir,
              createCfg["display_name"], createCfg["created"]))
    /\ Ends(0, IF Args.dry_run THEN "Dry run complete!" ELSE "Setup complete!")
    /\ UNCHANGED <<createCall, createCfg, createRuns, ghGists, ghVars, tplDisk>>
    /\ UNCHANGED nonCreateVars

\* "Write config files" and the summary
SaveConfig ==
    /\ createPc = "save"
    /\ IF Args.dry_run
       THEN /\ Ends(0, "Dry run complete!")
            /\ UNCHANGED <<projectFile, globalFile>>
       ELSE /\ projectFile' = save_project_config(project_cfg(createCfg))
            /\ globalFile' = save_global_config(
                  register_repo_globally(globalFile, createCfg["owner"],
                      createCfg["repo"], createCfg["badge_gist_id"],
                      createCfg["archive_gist_id"], WorkDir,
                      createCfg["display_name"], createCfg["created"]))
            /\ Ends(0, "Setup complete!")
    /\ UNCHANGED <<createCall, createCfg, createRuns, ghGists, ghVars, tplDisk>>
    /\ UNCHANGED nonCreateVars

NextCreate ==
    \/ StartCreate \/ Prereqs \/ Gather \/ Validate \/ CreateBadgeGist
    \/ CreateArchiveGist \/ SetVariables \/ ConfigureFiles \/ SaveConfig

SpecCreate == InitCreate /\ [][NextCreate]_vars

----------------------------------------------------------------------------
(* Claims on create *)

Logged(line) == \E i \in 1..Len(createLog) : createLog[i] = line

\* The invocation started in a directory whose project settings file, left by
\* an earlier create that ran to its end without dry-run, names owner and repo.
StartedOnSettings ==
    /\ createCall.kind = "create"
    /\ createCall.project_before.kind = "json"
    /\ Truthy(DictGet(createCall.project_before.data, KOwner))
    /\ Truthy(DictGet(createCall.project_before.data, KRepo))

GatherFailed ==
    \/ Logged("ERROR: --owner is required in non-interactive mode.")
    \/ Logged("ERROR: GitHub owner is required.")
    \/ Logged("ERROR: --repo is required in non-interactive mode.")
    \/ Logged("ERROR: Repository name is required.")

\* C9: a create invocation without the owner and repo flags, in a directory
\* whose project settings file a successful create wrote, takes both values
\* from that file and proceeds: it neither fails for lack of them nor asks.
C9_CreateResolvesFromSettings ==
    (/\ StartedOnSettings
     /\ ~Truthy(Args.owner) /\ ~Truthy(Args.repo)
     /\ (Logged("config gathered") \/ GatherFailed))
        => /\ Logged("config gathered")
           /\ ~Logged("ask owner") /\ ~Logged("ask repo")
           /\ createCfg["owner"] = createCall.project_before.data[KOwner]
           /\ createCfg["repo"] = createCall.project_before.data[KRepo]

\* What an invocation can change: the gists and the repository variables and
\* secrets on GitHub, the template files, and the two settings files.
NoSideEffect ==
    /\ ghGists = createCall.gists_before
    /\ ghVars = createCall.vars_before
    /\ tplDisk = createCall.disk_before
    /\ projectFile = createCall.project_before
    /\ globalFile = createCall.global_before

\* YYYY-MM-DD: ten characters, digits around two dashes.
YmdForm(text) ==
    /\ Len(text) = 10
    /\ \A k \in {1, 2, 3, 4, 6, 7, 9, 10} : text[k] \in Digits
    /\ text[5] = "-" /\ text[8] = "-"

\* The invocation was given a creation date (as a flag, or at the question)
\* that is not in YYYY-MM-DD form, or lacks owner or repo in non-interactive
\* mode.
InvalidInput ==
    /\ createCall.kind = "create"
    /\ \/ Args.non_interactive /\ (~Truthy(Args.owner) \/ ~Truthy(Args.repo))
       \/ Truthy(Args.created) /\ ~YmdForm(Args.created)
       \/ "created" \in DOMAIN createCfg /\ ~YmdForm(createCfg["created"])

\* C11: a create invocation given a creation date that is not in YYYY-MM-DD
\* form, or lacking owner or repo in non-interactive mode, applies no side
\* effect (no gist request, no variable or secret, no template file changed,
\* no settings file written) and ends with a non-zero exit code.
C11_InvalidInputFailsClean ==
    InvalidInput =>
        /\ NoSideEffect
        /\ createPc = "ended" => createExit.code /= 0

PrereqsPassed == Logged("GitHub username")

ValidDryRun ==
    /\ createCall.kind = "create"
    /\ Args.dry_run /\ Args.non_interactive
    /\ Truthy(Args.owner) /\ Truthy(Args.repo)
    /\ Truthy(Args.created) /\ YmdForm(Args.created)

\* The dry run listed the five files of the badge gist and then the one file
\* of the archive gist.
ListsGistFiles ==
    \E i \in 1..Len(createLog) :
        /\ i + 7 <= Len(createLog)
        /\ createLog[i] = "Would create PUBLIC gist"
        /\ SubSeq(createLog, i + 1, i + 5) = BadgeFileNames
        /\ createLog[i + 6] = "Would create UNLISTED gist"
        /\ SubSeq(createLog, i + 7, i + 7) = ArchiveFileNames

DryRunReport ==
    /\ createExit.code = 0
    /\ ListsGistFiles
    /\ createCfg["badge_gist_id"] = <<"<DRY_RUN_BADGE_GIST_ID>">>
    /\ createCfg["archive_gist_id"] = <<"<DRY_RUN_ARCHIVE_GIST_ID>">>

\* C12 as stated: a create invocation with dry-run and non-interactive set
\* and valid owner, repo and creation date has no side effect, lists the five
\* badge files and the archive file, uses the placeholder ids and returns 0.
C12_Original ==
    ValidDryRun =>
        /\ NoSideEffect
        /\ createPc = "ended" => DryRunReport

\* C12 amended: such an invocation has no side effect; when gh is installed
\* and authenticated and reports the user name, it lists the files, uses the
\* placeholder ids and returns 0; otherwise it exits with 1.
C12_DryRunCreate ==
    ValidDryRun =>
        /\ NoSideEffect
        /\ (createPc = "ended" /\ PrereqsPassed) => DryRunReport
        /\ (createPc = "ended" /\ ~PrereqsPassed) => createExit.code = 1

\* C12 witness: the second invocation in a directory an earlier create has
\* set up is a dry run with --configure; it ended with 0 after reporting
\* what it would set, and changed nothing.
C12_Witness ==
    /\ ValidDryRun /\ createPc = "ended" /\ createExit.code = 0
    /\ createRuns = 2 /\ Len(ghGists) = 2
    /\ Args.configure_files /\ ~Args.skip_variables
    /\ Logged("Would set variables") /\ Logged("configure files")
    /\ Logged("Dry run complete!")
    /\ projectFile.kind = "json"

\* C13: every gist request of the badge step is public and every gist request
\* of the archive step is not, whatever the flags of the invocation.
C13_GistVisibility ==
    [][Len(ghGists') > Len(ghGists) =>
          /\ createPc = "badge" => ghGists'[Len(ghGists')].public
          /\ createPc = "archive" => ~ghGists'[Len(ghGists')].public
          /\ createPc \in {"badge", "archive"}]_vars

\* C13 witness: an invocation with --skip-variables and --configure ended
\* after creating a public gist of five files and a non-public one of one.
C13_Witness ==
    /\ createPc = "ended" /\ createExit.code = 0
    /\ Args.skip_variables /\ Args.configure_files /\ ~Args.dry_run
    /\ Len(ghGists) = 2
    /\ ghGists[1].public /\ ghGists[1].files = BadgeFiles
    /\ ~ghGists[2].public /\ ghGists[2].files = ArchiveFiles

\* The gists this invocation has created so far.
CreatedNow == Len(ghGists) - Len(createCall.gists_before)

RealRun == createCall.kind = "create" /\ ~createCall.args.dry_run

\* C24: in a create that is not a dry run the badge gist is requested
\* first and the archive gist second, while no variable, secret, template or
\* settings file has been touched; variables, the secret and the templates
\* change, and the settings files are written, only when both gists exist;
\* a failed gist request ends the command with a non-zero exit code and both
\* settings files as they were.
C24_CreateOrder ==
    [][RealRun =>
          /\ Len(ghGists') > Len(ghGists) =>
                /\ Len(ghGists') = Len(ghGists) + 1
                /\ \/ /\ CreatedNow = 0
                      /\ ghGists'[Len(ghGists')].public
                      /\ createPc = "badge"
                   \/ /\ CreatedNow = 1
                      /\ ~ghGists'[Len(ghGists')].public
                      /\ ghGists[Len(ghGists)].public
                      /\ createPc = "archive"
                /\ ghVars' = createCall.vars_before
                /\ tplDisk' = createCall.disk_before
                /\ projectFile' = createCall.project_before
                /\ globalFile' = createCall.global_before
          /\ (ghVars' /= ghVars \/ tplDisk' /= tplDisk
                \/ createPc \in {"variables", "configure"}) =>
                /\ CreatedNow = 2
                /\ projectFile' = createCall.project_before
                /\ globalFile' = createCall.global_before
          /\ (projectFile' /= projectFile \/ globalFile' /= globalFile
                \/ createPc = "save") =>
                /\ CreatedNow = 2
                /\ createPc = "save"
          /\ (createPc \in {"badge", "archive"} /\ createPc' = "ended") =>
                /\ Len(ghGists') = Len(ghGists)
                /\ createExit'.kind = "exit"
                /\ createExit'.code /= 0
                /\ projectFile' = createCall.project_before
                /\ globalFile' = createCall.global_before
      ]_vars

\* The archive request failed after the badge gist was created.
C24_Witness ==
    /\ RealRun
    /\ createPc = "ended"
    /\ CreatedNow = 1
    /\ createExit.code = 1
    /\ createRuns = 2
    /\ projectFile = createCall.project_before
    /\ projectFile.kind = "json"

KCiWorkflows == <<"ci", "_", "workflows">>

\* The invocation has just written the settings and ended.
JustSaved ==
    /\ RealRun
    /\ createPc = "ended"
    /\ createLog /= <<>>
    /\ createLog[Len(createLog)] = "Setup complete!"

\* C25: after a create that saved, the project settings file holds exactly
\* the mapping of that invocation, whatever the file held before: no key of
\* an earlier save survives, so a ci_workflows list saved earlier is gone
\* when the later create has no CI workflow names.
C25_SaveReplaces ==
    JustSaved =>
        /\ projectFile.kind = "json"
        /\ projectFile.data = project_cfg(createCfg)
        /\ createCfg["ci_workflows"] = <<>> =>
              KCiWorkflows \notin DOMAIN projectFile.data

C25_Witness ==
    /\ JustSaved
    /\ createCall.project_before.kind = "json"
    /\ KCiWorkflows \in DOMAIN createCall.project_before.data
    /\ KCiWorkflows \notin DOMAIN projectFile.data

\* The warnings of step 3 and the command printed right after each of them
\* (create.py lines 294-311 and 176-179).
Remedy ==
    ("WARN: Could not set TRAFFIC_GIST_ID"
         :> "Run manually: gh variable set TRAFFIC_GIST_ID")
    @@ ("WARN: Could not set TRAFFIC_ARCHIVE_GIST_ID"
         :> "Run manually: gh variable set TRAFFIC_ARCHIVE_GIST_ID")
    @@ ("WARN: Could not set secret." :> "Run manually: gh secret set")

RemedyCommands ==
    {Remedy[w] : w \in DOMAIN Remedy}
    \cup {"Then run: gh secret set", "Remember to run: gh secret set"}

FollowedBy(line, nexts) ==
    \A i \in 1..Len(createLog) :
       createLog[i] = line => i < Len(createLog) /\ createLog[i + 1] \in nexts

\* Each of the three items of step 3 has been attempted and reported.
AllItemsReported ==
    /\ Logged("OK: TRAFFIC_GIST_ID")
       \/ Logged("WARN: Could not set TRAFFIC_GIST_ID")
    /\ Logged("OK: TRAFFIC_ARCHIVE_GIST_ID")
       \/ Logged("WARN: Could not set TRAFFIC_ARCHIVE_GIST_ID")
    /\ \/ Logged("Then run: gh secret set")
       \/ Logged("SKIP: PAT not provided")
       \/ Logged("set secret")
       \/ Logged("WARN: Could not set secret.")

ContinuesToExitZero ==
    /\ (createPc \in {"configure", "save", "ended"} /\ CreatedNow = 2
          /\ ~Args.skip_variables) => AllItemsReported
    /\ (createPc = "ended" /\ CreatedNow = 2) =>
          /\ createExit = [kind |-> "exit", code |-> 0]
          /\ createLog[Len(createLog)] = "Setup complete!"

----------------------------------------------------------------------------
(* The OutputManager: lib/log_lib/manager.py, lib/log_lib/hints.py *)

\* levels.py
NOTHING == -4

ERROR == -3

Hint(message, context, min_level, category) ==
    [message |-> message, context |-> context, min_level |-> min_level,
     category |-> category]

\* The registry _HINTS after `import ghtraf.hints`.
HINTS ==
    ("setup.dry_run" :> Hint("Tip: Use --dry-run", {"result"}, 0, "setup"))
    @@ ("setup.configure" :> Hint("Tip: Re-run with --configure", {"result"}, 0, "setup"))
    @@ ("api.rate_limit" :> Hint("Note: GitHub API rate limit", {"verbose"}, 1, "api"))
    @@ ("config.remember" :> Hint("Tip: ghtraf remembers your settings", {"result"}, 0, "config"))
    @@ ("setup.pat" :> Hint("Note: The workflow needs a separate PAT", {"verbose"}, 1, "setup"))

NoHint == [none |-> TRUE]

\* _HINTS.get(hint_id)
get_hint(hint_id) == IF hint_id \in DOMAIN HINTS THEN HINTS[hint_id] ELSE NoHint

\* OutputManager.__init__
OutputManager(verbosity, channel_overrides, quiet) ==
    [verbosity |-> IF quiet /\ verbosity >= 0 THEN -1 ELSE verbosity,
     channel_overrides |-> channel_overrides,
     shown_hints |-> {}]

\* self.channel_overrides.get(channel, self.verbosity)
Threshold(self, channel) ==
    IF channel \in DOMAIN self.channel_overrides
    THEN self.channel_overrides[channel]
    ELSE self.verbosity

emit_global(self, level, message, channel) ==
    IF self.verbosity <= NOTHING THEN <<>>
    ELSE IF level > self.verbosity THEN <<>>
    ELSE <<message>>

\* OutputManager.emit: the texts it prints
emit(self, level, message, channel) ==
    LET threshold == Threshold(self, channel)
    IN  IF threshold <= NOTHING THEN <<>>
        ELSE IF level > threshold THEN <<>>
        ELSE <<message>>

\* OutputManager.error
error(self, message) == emit(self, ERROR, message, "error")

should_print_errors(self) ==
    IF self.verbosity <= NOTHING THEN FALSE ELSE ERROR <= self.verbosity

\* output._should_print: the print functions count as level -2 messages of
\* the global verbosity; no channel override is looked at.
should_print(self) ==
    IF self.verbosity <= NOTHING THEN FALSE ELSE -2 <= self.verbosity

\* print_step, print_ok, print_dry, print_warn, print_skip: the tag and the
\* message on standard output.
print_tagged(self, tag, msg) ==
    IF should_print(self) THEN <<tag, msg>> ELSE <<>>

\* output.print_error: through OutputManager.error
print_error(self, msg) == error(self, "ERROR: " \o msg)

\* The outcome of a hint call: what it printed, the set of shown hints it
\* leaves, and whether it raised.
Silent(self) == [printed |-> <<>>, shown_hints |-> self.shown_hints, raised |-> FALSE]

hint_unmarked(self, hint_id, context) ==
    LET h == get_hint(hint_id)
        threshold == Threshold(self, "hint")
    IN  IF hint_id \in self.shown_hints THEN Silent(self)
        ELSE IF h = NoHint THEN Silent(self)
        ELSE IF context \notin h.context THEN Silent(self)
        ELSE IF threshold <= NOTHING THEN Silent(self)
        ELSE IF h.min_level > threshold THEN Silent(self)
        ELSE [printed |-> <<h.message>>, shown_hints |-> self.shown_hints,
              raised |-> FALSE]

hint_eager(self, hint_id, context) ==
    LET h == get_hint(hint_id)
        threshold == Threshold(self, "hint")
        marked == [printed |-> <<>>,
                   shown_hints |-> self.shown_hints \cup {hint_id},
                   raised |-> FALSE]
    IN  IF hint_id \in self.shown_hints THEN Silent(self)
        ELSE IF h = NoHint THEN Silent(self)
        ELSE IF context \notin h.context THEN Silent(self)
        ELSE IF threshold <= NOTHING THEN marked
        ELSE IF h.min_level > threshold THEN marked
        ELSE [printed |-> <<h.message>>,
              shown_hints |-> self.shown_hints \cup {hint_id},
              raised |-> FALSE]

\* OutputManager.hint
hint(self, hint_id, context) ==
    LET h == get_hint(hint_id)
        threshold == Threshold(self, "hint")
    IN  IF hint_id \in self.shown_hints THEN Silent(self)
        ELSE IF h = NoHint THEN Silent(self)
        ELSE IF context \notin h.context THEN Silent(self)
        ELSE IF threshold <= NOTHING THEN Silent(self)
        ELSE IF h.min_level > threshold THEN Silent(self)
        ELSE [printed |-> <<h.message>>,
              shown_hints |-> self.shown_hints \cup {hint_id},
              raised |-> FALSE]

----------------------------------------------------------------------------
(* SpecOutput: calls on one OutputManager *)

MaxCalls == 3

\* -QQQQQ .. -vvv
Verbosities == {-5, -4, -3, -2, -1, 0, 1, 3}

\* The override maps: some of the channels pinned to a level.
OverrideMaps ==
    UNION {[chs -> {-4, -1, 2}] :
              chs \in {{}, {"timing"}, {"hint"}, {"error"},
                       {"timing", "error"}, {"hint", "error"}}}

EmitLevels == -4..3

EmitChannels == {"general", "timing"}

HintIds == {"config.remember", "api.rate_limit", "no.such"}

Contexts == {"result", "verbose", "error"}

\* The texts the file can receive.
Texts == {"message", "boom"} \cup {HINTS[id].message : id \in DOMAIN HINTS}

Written(printed) ==
    [t \in Texts |->
        outFile[t] + Cardinality({i \in 1..Len(printed) : printed[i] = t})]

InitOutput ==
    /\ CfgIdle
    /\ InitIdle
    /\ TplIdle
    /\ CreateIdle
    /\ CliIdle
    /\ WalkIdle
    /\ outMgr \in {OutputManager(v, o, q) :
                      v \in Verbosities, o \in OverrideMaps, q \in BOOLEAN}
    /\ outFile = [t \in Texts |-> 0]
    /\ outCall = [kind |-> "none"]
    /\ outCalls = 0

Called(call, printed, raised) ==
    /\ outCalls < MaxCalls
    /\ outCalls' = outCalls + 1
    /\ outCall' = call @@ [printed |-> printed, raised |-> raised,
                           shown_before |-> outMgr.shown_hints]
    /\ outFile' = Written(printed)
    /\ UNCHANGED nonOutVars

Emit ==
    \E level \in EmitLevels, channel \in EmitChannels :
        /\ Called([kind |-> "emit", level |-> level, channel |-> channel],
                  emit(outMgr, level, "message", channel), FALSE)
        /\ UNCHANGED outMgr

Error ==
    /\ Called([kind |-> "error", level |-> ERROR, channel |-> "error"],
              error(outMgr, "boom"), FALSE)
    /\ UNCHANGED outMgr

HintCall ==
    \E hint_id \in HintIds, context \in Contexts :
        \E r \in {hint(outMgr, hint_id, context)} :
            /\ Called([kind |-> "hint", hint_id |-> hint_id,
                       context |-> context, channel |-> "hint"],
                      r.printed, r.raised)
            /\ outMgr' = [outMgr EXCEPT !.shown_hints = r.shown_hints]

Tags == {"[OK]", "[WARN]", "[SKIP]", "[DRY RUN]", "== Step"}

Tagged ==
    \E tag \in Tags :
        /\ Called([kind |-> "print", tag |-> tag],
                  print_tagged(outMgr, tag, "msg"), FALSE)
        /\ UNCHANGED outMgr

ReportError ==
    /\ Called([kind |-> "print_error", channel |-> "error"],
              print_error(outMgr, "msg"), FALSE)
    /\ UNCHANGED outMgr

NextOutput == Emit \/ Error \/ HintCall \/ Tagged \/ ReportError

SpecOutput == InitOutput /\ [][NextOutput]_vars

----------------------------------------------------------------------------
(* Claims on the OutputManager *)

\* C14: when the global verbosity is -4, no emit, error or hint call writes
\* anything, whatever override is set for its channel.
C14_HardWallSilencesAll ==
    (outCall.kind /= "none" /\ outMgr.verbosity = NOTHING)
        => outCall.printed = <<>>

\* threshold(channel): the channel's override if one is set, else the global
\* verbosity.
ThresholdOf(channel) ==
    IF channel \in DOMAIN outMgr.channel_overrides
    THEN outMgr.channel_overrides[channel]
    ELSE outMgr.verbosity

C16_HintAtMostOnce ==
    \A id \in DOMAIN HINTS : outFile[HINTS[id].message] <= 1

\* C16 witness: a hint was displayed and a later call for the same hint, in
\* a context of the hint and within the threshold, wrote nothing.
C16_Witness ==
    /\ outCall.kind = "hint" /\ outCall.hint_id = "config.remember"
    /\ outCall.context = "result" /\ ThresholdOf("hint") >= 0
    /\ outCall.hint_id \in outCall.shown_before
    /\ outCall.printed = <<>>
    /\ outFile[HINTS["config.remember"].message] = 1

\* The reasons for which a hint call is suppressed: an unregistered id, a
\* context outside the hint's contexts, a minimum level above the threshold
\* of the hint channel.
Suppressed(call) ==
    \/ call.hint_id \notin DOMAIN HINTS
    \/ /\ call.hint_id \in DOMAIN HINTS
       /\ \/ call.context \notin HINTS[call.hint_id].context
          \/ HINTS[call.hint_id].min_level > ThresholdOf("hint")

\* C17: a suppressed hint call writes nothing, raises nothing and leaves the
\* set of shown hints as it was; an id enters that set only in a call that
\* writes its message; and a call that is not suppressed, for a hint not yet
\* shown, writes the message.
C17_SuppressedHintIsNoOp ==
    [][(outCalls' = outCalls + 1 /\ outCall'.kind = "hint") =>
          /\ Suppressed(outCall') =>
                /\ outCall'.printed = <<>> /\ ~outCall'.raised
                /\ outFile' = outFile
                /\ outMgr'.shown_hints = outMgr.shown_hints
          /\ outMgr'.shown_hints /= outMgr.shown_hints =>
                /\ outMgr'.shown_hints
                      = outMgr.shown_hints \cup {outCall'.hint_id}
                /\ outCall'.printed = <<HINTS[outCall'.hint_id].message>>
          /\ (~Suppressed(outCall')
                /\ outCall'.hint_id \notin outMgr.shown_hints) =>
                outCall'.printed = <<HINTS[outCall'.hint_id].message>>]_vars

\* C17 witness: a verbose hint was called at verbosity 0, where its minimum
\* level 1 exceeds the threshold: nothing was written and it is not shown;
\* and a hint call before it was displayed.
C17_Witness ==
    /\ outCall.kind = "hint" /\ outCall.hint_id = "api.rate_limit"
    /\ outCall.context = "verbose"
    /\ outMgr.verbosity = 0 /\ "hint" \notin DOMAIN outMgr.channel_overrides
    /\ outCall.printed = <<>> /\ ~outCall.raised
    /\ "api.rate_limit" \notin outMgr.shown_hints
    /\ "config.remember" \in outMgr.shown_hints

----------------------------------------------------------------------------
(* The command line: cli.py *)

\* Python values of a namespace.
PyNone == [t |-> "none"]

PyInt(n) == [t |-> "int", n |-> n]

PyStr(str) == [t |-> "str", s |-> str]

PyBool(b) == [t |-> "bool", b |-> b]

PyList(items) == [t |-> "list", items |-> items]

\* GLOBAL_FLAGS with the aliases: option string -> destination and action.
\* "store" takes one argument, "append" (nargs='?') takes one if there is one.
GLOBAL_FLAGS ==
    ("--verbose" :> [dest |-> "verbose", action |-> "count"])
    @@ ("-v" :> [dest |-> "verbose", action |-> "count"])
    @@ ("--quiet" :> [dest |-> "quiet", action |-> "count"])
    @@ ("-Q" :> [dest |-> "quiet", action |-> "count"])
    @@ ("--show" :> [dest |-> "show", action |-> "append"])
    @@ ("--no-color" :> [dest |-> "no_color", action |-> "store_true"])
    @@ ("--config" :> [dest |-> "config", action |-> "store"])

\* The defaults of the global flags.
GlobalDefaults ==
    [verbose |-> PyInt(0), quiet |-> PyInt(0), show |-> PyNone,
     no_color |-> PyBool(FALSE), config |-> PyNone]

\* The flags of the subcommands used here (the shared --owner and --dry-run).
SubFlags ==
    ("--owner" :> [dest |-> "owner", action |-> "store"])
    @@ ("--dry-run" :> [dest |-> "dry_run", action |-> "store_true"])

Subcommands == {"create", "init"}

\* argparse takes an argument that begins with "-" for an option.
OptionLike(a) == a \in DOMAIN GLOBAL_FLAGS \cup DOMAIN SubFlags

ParseError == [ok |-> FALSE, ns |-> PyNone, remaining |-> <<>>]

\* global_parser.parse_known_args(argv), from position i on: a known option
\* is applied with the arguments its action takes, anything else is left.
RECURSIVE KnownArgs(_, _, _, _)
KnownArgs(argv, i, ns, extras) ==
    IF i > Len(argv) THEN [ok |-> TRUE, ns |-> ns, remaining |-> extras]
    ELSE IF argv[i] \notin DOMAIN GLOBAL_FLAGS
    THEN KnownArgs(argv, i + 1, ns, Append(extras, argv[i]))
    ELSE LET f == GLOBAL_FLAGS[argv[i]]
             hasArg == i < Len(argv) /\ ~OptionLike(argv[i + 1])
         IN  IF f.action = "count"
             THEN KnownArgs(argv, i + 1,
                      [ns EXCEPT ![f.dest] = PyInt(@.n + 1)], extras)
             ELSE IF f.action = "store_true"
             THEN KnownArgs(argv, i + 1,
                      [ns EXCEPT ![f.dest] = PyBool(TRUE)], extras)
             ELSE IF f.action = "store"
             THEN IF hasArg
                  THEN KnownArgs(argv, i + 2,
                           [ns EXCEPT ![f.dest] = PyStr(argv[i + 1])], extras)
                  ELSE ParseError
             ELSE LET entry == IF hasArg THEN PyStr(argv[i + 1]) ELSE PyNone
                      items == IF ns[f.dest].t = "none" THEN <<entry>>
                               ELSE Append(ns[f.dest].items, entry)
                  IN  KnownArgs(argv, IF hasArg THEN i + 2 ELSE i + 1,
                          [ns EXCEPT ![f.dest] = PyList(items)], extras)

\* _extract_global_flags
extract_global_flags(argv) == KnownArgs(argv, 1, GlobalDefaults, <<>>)

\* The subparser on the arguments after the subcommand.
RECURSIVE SubArgs(_, _, _)
SubArgs(argv, i, ns) ==
    IF i > Len(argv) THEN [ok |-> TRUE, ns |-> ns, remaining |-> <<>>]
    ELSE IF argv[i] \notin DOMAIN SubFlags THEN ParseError
    ELSE LET f == SubFlags[argv[i]]
         IN  IF f.action = "store_true"
             THEN SubArgs(argv, i + 1, [ns EXCEPT ![f.dest] = PyBool(TRUE)])
             ELSE IF i < Len(argv) /\ ~OptionLike(argv[i + 1])
             THEN SubArgs(argv, i + 2, [ns EXCEPT ![f.dest] = PyStr(argv[i + 1])])
             ELSE ParseError

parse_args_lenient(remaining) ==
    SubArgs(remaining, 2,
        [verbose |-> PyInt(0), quiet |-> PyInt(0), show |-> PyNone,
         no_color |-> PyBool(FALSE), config |-> PyNone,
         command |-> PyStr(remaining[1]), owner |-> PyNone,
         dry_run |-> PyBool(FALSE), func |-> PyStr("run")])

\* parser.parse_args(remaining) of _build_parser: the main parser declares the
\* global flags too, so the namespace starts from their defaults.
parse_args(remaining) ==
    IF remaining = <<>> \/ remaining[1] \notin Subcommands THEN ParseError
    ELSE SubArgs(remaining, 2,
             [verbose |-> PyInt(0), quiet |-> PyInt(0), show |-> PyNone,
              no_color |-> PyBool(FALSE), config |-> PyNone,
              command |-> PyStr(remaining[1]), owner |-> PyNone,
              dry_run |-> PyBool(FALSE), func |-> PyStr("run")])

\* "Merge global args into the namespace": a name is set when the namespace
\* lacks it or holds None for it.
MergeGlobal(args, global_args) ==
    [key \in DOMAIN args \cup DOMAIN global_args |->
        IF /\ key \in DOMAIN global_args
           /\ key \notin DOMAIN args \/ args[key].t = "none"
        THEN global_args[key]
        ELSE args[key]]

\* How main ends: with a returned code or with an exception, after printing
\* the help, a usage error, the channel list or nothing of its own.
Returned(code, outcome, printed) ==
    [kind |-> "returned", code |-> code, exc |-> "", outcome |-> outcome,
     printed |-> printed]

Raised(exc, code, outcome, printed) ==
    [kind |-> "raised", code |-> code, exc |-> exc, outcome |-> outcome,
     printed |-> printed]

\* What args.func(args) can do: return a value, or raise.
FuncOutcomes ==
    {[kind |-> "return", value |-> v, exc |-> ""] :
        v \in {PyNone, PyInt(0), PyInt(1)}}
    \cup {[kind |-> "raise", value |-> PyNone, exc |-> "KeyboardInterrupt"]}
    \cup {[kind |-> "raise", value |-> c, exc |-> "SystemExit"] :
            c \in {PyInt(0), PyInt(1), PyInt(2), PyNone, PyStr("message")}}
    \cup {[kind |-> "raise", value |-> PyNone, exc |-> "PermissionError"]}

\* The try statement of main around args.func(args).
dispatch(o) ==
    IF o.kind = "return"
    THEN Returned(IF o.value.t = "none" \/ o.value.n = 0 THEN 0
                  ELSE o.value.n, o, "")
    ELSE IF o.exc = "KeyboardInterrupt" THEN Returned(130, o, "")
    ELSE IF o.exc = "SystemExit"
    THEN Returned(IF o.value.t = "int" THEN o.value.n ELSE 1, o, "")
    ELSE Raised(o.exc, 1, o, "")

----------------------------------------------------------------------------
(* SpecCli: one run of main *)

MaxArgs == 3

Words ==
    {"-v", "-Q", "--show", "--no-color", "--config", "p", "timing:2",
     "create", "init", "--owner", "x", "--dry-run"}

ArgLists == UNION {[1..n -> Words] : n \in 0..MaxArgs}

\* A --show takes the next argument when that is a channel spec; --config
\* takes the next argument.
ChannelSpecs == {"timing:2"}

FlagLen(argv, i) ==
    IF argv[i] = "--config" THEN 2
    ELSE IF argv[i] = "--show" /\ i < Len(argv) /\ argv[i + 1] \in ChannelSpecs
    THEN 2
    ELSE 1

\* The global flags that stand before the subcommand.
Movable(argv) ==
    {i \in 1..Len(argv) :
        /\ argv[i] \in DOMAIN GLOBAL_FLAGS
        /\ \A j \in 1..i : argv[j] \notin Subcommands
        /\ i + FlagLen(argv, i) <= Len(argv)
        /\ \A j \in (i + 1)..(i + FlagLen(argv, i) - 1) :
              argv[j] \notin Subcommands
        /\ \E j \in (i + FlagLen(argv, i))..Len(argv) : argv[j] \in Subcommands}

\* The list with the flag at i moved to the end.
MoveBack(argv, i) ==
    LET n == FlagLen(argv, i)
    IN  SubSeq(argv, 1, i - 1) \o SubSeq(argv, i + n, Len(argv))
        \o SubSeq(argv, i, i + n - 1)

InitCli ==
    /\ CfgIdle
    /\ InitIdle
    /\ TplIdle
    /\ CreateIdle
    /\ OutIdle
    /\ WalkIdle
    /\ cliPc = "pass1"
    /\ cliArgv \in ArgLists
    /\ cliGlobal = [kind |-> "none"]
    /\ cliRemaining = <<>>
    /\ cliMoved = [kind |-> "none"]
    /\ cliArgs = [kind |-> "none"]
    /\ cliResult = [kind |-> "none"]

NoOutcome == [kind |-> "none", value |-> PyNone, exc |-> ""]

\* Pass 1, and the bare --show that lists the channels and returns.
Pass1 ==
    /\ cliPc = "pass1"
    /\ LET r == extract_global_flags(cliArgv)
       IN  IF ~r.ok
           THEN /\ cliPc' = "done"
                /\ cliResult' = Raised("SystemExit", 2, NoOutcome, "usage")
                /\ UNCHANGED <<cliGlobal, cliRemaining, cliMoved>>
           ELSE /\ cliGlobal' = r.ns
                /\ cliRemaining' = r.remaining
                /\ \/ /\ Movable(cliArgv) = {}
                      /\ cliMoved' = [kind |-> "none"]
                   \/ \E i \in Movable(cliArgv) :
                         LET m == MoveBack(cliArgv, i)
                             t == extract_global_flags(m)
                         IN  cliMoved' = [kind |-> "moved", argv |-> m,
                                          ok |-> t.ok, global |-> t.ns,
                                          remaining |-> t.remaining]
                /\ IF r.ns.show.t = "list"
                      /\ \E k \in 1..Len(r.ns.show.items) : r.ns.show.items[k] = PyNone
                   THEN /\ cliPc' = "done"
                        /\ cliResult' = Returned(0, NoOutcome, "channels")
                   ELSE /\ cliPc' = "pass2"
                        /\ UNCHANGED cliResult
    /\ UNCHANGED <<cliArgv, cliArgs>>
    /\ UNCHANGED nonCliVars

\* Pass 2 and the merge
Pass2 ==
    /\ cliPc = "pass2"
    /\ IF cliRemaining = <<>>
       THEN /\ cliPc' = "done"
            /\ cliResult' = Returned(0, NoOutcome, "help")
            /\ UNCHANGED cliArgs
       ELSE LET r == parse_args(cliRemaining)
            IN  IF ~r.ok
                THEN /\ cliPc' = "done"
                     /\ cliResult' = Raised("SystemExit", 2, NoOutcome, "usage")
                     /\ UNCHANGED cliArgs
                ELSE /\ cliPc' = "dispatch"
                     /\ cliArgs' = MergeGlobal(r.ns, cliGlobal)
                     /\ UNCHANGED cliResult
    /\ UNCHANGED <<cliArgv, cliGlobal, cliRemaining, cliMoved>>
    /\ UNCHANGED nonCliVars

Dispatch ==
    /\ cliPc = "dispatch"
    /\ \E o \in FuncOutcomes : cliResult' = dispatch(o)
    /\ cliPc' = "done"
    /\ UNCHANGED <<cliArgv, cliGlobal, cliRemaining, cliMoved, cliArgs>>
    /\ UNCHANGED nonCliVars

NextCli == Pass1 \/ Pass2 \/ Dispatch

SpecCli == InitCli /\ [][NextCli]_vars

----------------------------------------------------------------------------
(* Claims on the command line *)

Count(argv, words) == Cardinality({i \in 1..Len(argv) : argv[i] \in words})

\* The arguments other than the global flags, in their order.
RECURSIVE OthersFrom(_, _)
OthersFrom(argv, i) ==
    IF i > Len(argv) THEN <<>>
    ELSE IF argv[i] \in DOMAIN GLOBAL_FLAGS
    THEN OthersFrom(argv, i + FlagLen(argv, i))
    ELSE <<argv[i]>> \o OthersFrom(argv, i + 1)

\* The --show entries, in their order: the channel spec given, or None.
RECURSIVE ShowsFrom(_, _)
ShowsFrom(argv, i) ==
    IF i > Len(argv) THEN <<>>
    ELSE IF argv[i] = "--show"
    THEN <<IF FlagLen(argv, i) = 2 THEN PyStr(argv[i + 1]) ELSE PyNone>>
         \o ShowsFrom(argv, i + FlagLen(argv, i))
    ELSE IF argv[i] \in DOMAIN GLOBAL_FLAGS
    THEN ShowsFrom(argv, i + FlagLen(argv, i))
    ELSE ShowsFrom(argv, i + 1)

Pass1Done == cliPc \in {"pass2", "dispatch", "done"} /\ "verbose" \in DOMAIN cliGlobal

\* C18: pass 1 takes the global flags out wherever they stand: the counts of
\* the verbosity flags, no-color and the --show entries are those given, the
\* remaining list is the other arguments in their order, and the list with a
\* global flag moved from before the subcommand to the end gives the same
\* values and the same remaining list.
C18_GlobalFlagsAnywhere ==
    Pass1Done =>
        /\ cliGlobal.verbose = PyInt(Count(cliArgv, {"-v", "--verbose"}))
        /\ cliGlobal.quiet = PyInt(Count(cliArgv, {"-Q", "--quiet"}))
        /\ cliGlobal.no_color = PyBool(Count(cliArgv, {"--no-color"}) > 0)
        /\ cliGlobal.show.t = "list" =>
              cliGlobal.show.items = ShowsFrom(cliArgv, 1)
        /\ cliGlobal.show.t = "none" => ShowsFrom(cliArgv, 1) = <<>>
        /\ cliRemaining = OthersFrom(cliArgv, 1)
        /\ cliMoved.kind = "moved" =>
              /\ cliMoved.ok
              /\ cliMoved.global = cliGlobal
              /\ cliMoved.remaining = cliRemaining

\* C19: the namespace handed to the subcommand holds, for every global flag,
\* the value pass 1 extracted (no flag of a subcommand sets one of these
\* names); verbose is the number of verbosity-increase flags given.
C19_NamespaceCarriesGlobals ==
    (cliPc \in {"dispatch", "done"} /\ "func" \in DOMAIN cliArgs) =>
        /\ \A key \in DOMAIN cliGlobal : cliArgs[key] = cliGlobal[key]
        /\ cliArgs["verbose"] = PyInt(Count(cliArgv, {"-v", "--verbose"}))

\* C20: whatever the subcommand does, main returns an exit code: 130 on an
\* interrupt, the code of a deliberate exit when it is an integer and 1
\* otherwise, the subcommand's return value, or 0 when it returns nothing.
C20_DispatchReturnsCode ==
    (cliPc = "done" /\ cliResult.outcome.kind /= "none") =>
        LET o == cliResult.outcome
        IN  /\ cliResult.kind = "returned"
            /\ o.exc = "KeyboardInterrupt" => cliResult.code = 130
            /\ o.exc = "SystemExit" =>
                  cliResult.code = IF o.value.t = "int" THEN o.value.n ELSE 1
            /\ o.kind = "return" =>
                  cliResult.code = IF o.value.t = "none" THEN 0 ELSE o.value.n

----------------------------------------------------------------------------
(* SpecLoad: loading settings files that cannot be read *)

\* A path that exists and cannot be opened for reading (a directory, a file
\* without read permission): open raises an OSError that is neither
\* FileNotFoundError nor JSONDecodeError.
UnreadableFile == [kind |-> "unreadable"]

\* load_json lets every exception other than the two it names pass.
LoadRaises(file) == file.kind = "unreadable"

InitLoad ==
    /\ projectFile \in ProjFiles \cup {UnreadableFile}
    /\ globalFile \in GlobalFiles \cup {UnreadableFile}
    /\ resolveCall = NoCall
    /\ regCall = NoCall
    /\ regCount = 0
    /\ InitIdle
    /\ TplIdle
    /\ CreateIdle
    /\ OutIdle
    /\ CliIdle
    /\ WalkIdle

LoadJson ==
    \E file \in {projectFile, globalFile} :
        /\ resolveCall' =
              [kind |-> "load", file |-> file, raised |-> LoadRaises(file),
               value |-> IF LoadRaises(file) THEN EmptyDict
                         ELSE load_json(file)]
        /\ UNCHANGED <<projectFile, globalFile, regCall, regCount>>
        /\ UNCHANGED nonCfgVars

\* resolve_config loads both layers before it looks at a key.
ResolveLoaded ==
    \E args \in ArgsSet, keys \in KeyLists :
        LET raised == LoadRaises(projectFile) \/ LoadRaises(globalFile)
        IN  /\ resolveCall' =
                  [kind |-> "resolve", args |-> args, keys |-> keys,
                   raised |-> raised,
                   resolved |-> IF raised THEN EmptyDict
                                ELSE resolve_config(args, keys, projectFile,
                                                    globalFile)]
            /\ UNCHANGED <<projectFile, globalFile, regCall, regCount>>
            /\ UNCHANGED nonCfgVars

NextLoad == LoadJson \/ ResolveLoaded

SpecLoad == InitLoad /\ [][NextLoad]_vars

\* C22: load_json raises nothing and returns the empty mapping whenever the
\* file is missing, malformed or unreadable, and resolve_config then resolves
\* as if that layer were empty.
C22_LoadJsonNeverRaises ==
    /\ resolveCall.kind = "load" =>
          /\ ~resolveCall.raised
          /\ resolveCall.file.kind /= "json" => resolveCall.value = EmptyDict
    /\ resolveCall.kind = "resolve" =>
          /\ ~resolveCall.raised
          /\ resolveCall.resolved =
                resolve_config(resolveCall.args, resolveCall.keys,
                    IF projectFile.kind = "json" THEN projectFile
                    ELSE MissingFile,
                    IF globalFile.kind = "json" THEN globalFile
                    ELSE MissingFile)

----------------------------------------------------------------------------
(* SpecWalk: find_project_config and _discover_repo_dir *)

\* The directories from the start directory up to the root are numbered
\* 1 (the start, which is the current directory) to depth (the root, which
\* is its own parent).  cfg holds the directories with a .ghtraf.json file,
\* git those with a .git entry.

\* range(20), the safety limit of both walks
HopLimit == 20

MaxDepth == 22

\* The directory --repo-dir names.
Explicit == 99

WalkInput(depth, cfg, git, repo_dir, non_interactive, response) ==
    [depth |-> depth, cfg |-> cfg, git |-> git, repo_dir |-> repo_dir,
     non_interactive |-> non_interactive, response |-> response]

\* Shallow trees with every placement of the two markers, and deep trees,
\* around and beyond the limit, with at most one marker of each kind.
Marks(depth) == {{}} \cup {{k} : k \in {1, HopLimit - 1, HopLimit, depth} \cap 1..depth}

WalkInputs ==
    {WalkInput(depth, cfg, git, repo_dir, ni, response) :
        depth \in 1..3, cfg \in SUBSET (1..3), git \in SUBSET (1..3),
        repo_dir \in {0, Explicit}, ni \in BOOLEAN,
        response \in {"", "y", "n", "no"}}
    \cup UNION {{WalkInput(depth, cfg, git, 0, ni, response) :
                    cfg \in Marks(depth), git \in Marks(depth),
                    ni \in BOOLEAN, response \in {"", "n"}} :
                depth \in {HopLimit - 1, HopLimit, HopLimit + 1, MaxDepth}}

InitWalk ==
    /\ CfgIdle
    /\ InitIdle
    /\ TplIdle
    /\ CreateIdle
    /\ OutIdle
    /\ CliIdle
    /\ walkPc = "begin"
    /\ walkIn \in {in \in WalkInputs : in.cfg \subseteq 1..in.depth
                                       /\ in.git \subseteq 1..in.depth}
    /\ walkCur = 0
    /\ walkSeen = {}
    /\ walkResult = [kind |-> "none"]

\* What _discover_repo_dir returns, with what find_project_config returned
\* (0 for None), and whether the user was asked or warned.
Discovered(dir, cfg, asked, warned) ==
    [kind |-> "dir", dir |-> dir, cfg |-> cfg, asked |-> asked,
     warned |-> warned]

\* 1. Explicit --repo-dir; otherwise find_project_config starts at the
\* current directory.
Begin ==
    /\ walkPc = "begin"
    /\ IF walkIn.repo_dir /= 0
       THEN /\ walkPc' = "done"
            /\ walkResult' = Discovered(walkIn.repo_dir, 0, FALSE, FALSE)
            /\ UNCHANGED walkCur
       ELSE /\ walkPc' = "config"
            /\ walkCur' = 1
            /\ UNCHANGED walkResult
    /\ UNCHANGED <<walkIn, walkSeen>>
    /\ UNCHANGED nonWalkVars

FindStepUnbounded ==
    /\ walkPc = "config"
    /\ walkSeen' = walkSeen \cup {walkCur}
    /\ IF walkCur \in walkIn.cfg
       THEN /\ walkPc' = "done"
            /\ walkResult' = Discovered(walkCur, walkCur, FALSE, FALSE)
            /\ UNCHANGED walkCur
       ELSE IF walkCur = walkIn.depth
       THEN /\ walkPc' = "git"
            /\ walkCur' = 1
            /\ walkResult' = [kind |-> "searching", cfg |-> 0]
       ELSE /\ walkCur' = walkCur + 1
            /\ UNCHANGED <<walkPc, walkResult>>
    /\ UNCHANGED walkIn
    /\ UNCHANGED nonWalkVars

\* One iteration of the loop of find_project_config: the candidate in the
\* current directory; then the parent, unless the current directory is the
\* root or this was the twentieth iteration.
FindStep ==
    /\ walkPc = "config"
    /\ walkSeen' = walkSeen \cup {walkCur}
    /\ IF walkCur \in walkIn.cfg
       THEN /\ walkPc' = "done"
            /\ walkResult' = Discovered(walkCur, walkCur, FALSE, FALSE)
            /\ UNCHANGED walkCur
       ELSE IF walkCur = walkIn.depth \/ walkCur = HopLimit
       THEN /\ walkPc' = "git"
            /\ walkCur' = 1
            /\ walkResult' = [kind |-> "searching", cfg |-> 0]
       ELSE /\ walkCur' = walkCur + 1
            /\ UNCHANGED <<walkPc, walkResult>>
    /\ UNCHANGED walkIn
    /\ UNCHANGED nonWalkVars

GitStepSilent ==
    /\ walkPc = "git"
    /\ IF walkCur \in walkIn.git
       THEN /\ walkPc' = "done"
            /\ walkResult' = Discovered(walkCur, 0, FALSE, FALSE)
            /\ UNCHANGED walkCur
       ELSE IF walkCur = walkIn.depth \/ walkCur = HopLimit
       THEN /\ walkPc' = "done"
            /\ walkResult' = Discovered(1, 0, FALSE, FALSE)
            /\ UNCHANGED walkCur
       ELSE /\ walkCur' = walkCur + 1
            /\ UNCHANGED <<walkPc, walkResult>>
    /\ UNCHANGED <<walkIn, walkSeen>>
    /\ UNCHANGED nonWalkVars

\* One iteration of the .git loop of _discover_repo_dir, and the fall back
\* to the current directory after the loop.
GitStep ==
    /\ walkPc = "git"
    /\ IF walkCur \in walkIn.git
       THEN /\ walkPc' = "done"
            /\ walkResult' =
                  IF walkCur = 1 THEN Discovered(1, 0, FALSE, FALSE)
                  ELSE IF walkIn.non_interactive
                  THEN Discovered(walkCur, 0, FALSE, TRUE)
                  ELSE IF walkIn.response \in {"n", "no"}
                  THEN Discovered(1, 0, TRUE, FALSE)
                  ELSE Discovered(walkCur, 0, TRUE, FALSE)
            /\ UNCHANGED walkCur
       ELSE IF walkCur = walkIn.depth \/ walkCur = HopLimit
       THEN /\ walkPc' = "done"
            /\ walkResult' = Discovered(1, 0, FALSE, FALSE)
            /\ UNCHANGED walkCur
       ELSE /\ walkCur' = walkCur + 1
            /\ UNCHANGED <<walkPc, walkResult>>
    /\ UNCHANGED <<walkIn, walkSeen>>
    /\ UNCHANGED nonWalkVars

NextWalk == Begin \/ FindStep \/ GitStep

SpecWalk == InitWalk /\ [][NextWalk]_vars

\* The walks are loops of one sequential function: each iteration runs.
SpecWalkFair == SpecWalk /\ WF_vars(NextWalk)

\* The directories a walk of at most 20 iterations can reach.
Reach == 1..(IF walkIn.depth < HopLimit THEN walkIn.depth ELSE HopLimit)

Nearest(S) == CHOOSE k \in S : \A j \in S : k <= j

FindReturned == walkPc \in {"git", "done"} /\ walkIn.repo_dir = 0

\* C29: find_project_config returns after examining at most 20 directories,
\* the start directory and its successive parents up to the root at most;
\* it returns the settings file of the nearest examined directory that holds
\* one, and not-found when none of the examined directories holds one.
C29_FindTerminates ==
    /\ [](/\ Cardinality(walkSeen) <= HopLimit
          /\ walkSeen \subseteq 1..walkIn.depth
          /\ \A k \in walkSeen : \A j \in 1..k : j \in walkSeen
          /\ FindReturned =>
                /\ 1 \in walkSeen
                /\ walkSeen \cap walkIn.cfg /= {} =>
                      /\ walkResult.cfg = Nearest(walkSeen \cap walkIn.cfg)
                      /\ walkSeen = 1..walkResult.cfg
                /\ walkSeen \cap walkIn.cfg = {} =>
                      /\ walkResult.cfg = 0
                      /\ walkSeen = Reach)
    /\ (walkPc = "config" ~> FindReturned)

\* Twenty directories were examined, none held the file, and the tree goes
\* on above them with the file in its root.
C29_Witness ==
    /\ FindReturned
    /\ Cardinality(walkSeen) = HopLimit
    /\ walkIn.depth > HopLimit
    /\ walkIn.cfg = {walkIn.depth}
    /\ walkResult.cfg = 0

====
